---- MODULE Spec2Model ----
(***************************************************************************)
(* A model of the SME/NEON kernels of go-highway (hwy/contrib/matmul,      *)
(* hwy/contrib/nn).                                                        *)
(*                                                                         *)
(* Part 1: the FMOPA matrix multiplications for float32 and float64,       *)
(*         blocked (blocked_fmopa_arm64.c) and un-blocked                  *)
(*         (matmul_sme_arm64.c).  One action per step of a tile's life:    *)
(*         svzero_za, one svmopa per k, the 16 (8) row stores.             *)
(*                                                                         *)
(* Numbers.  TLC's integers are 32 bits wide and there are no reals.  The  *)
(* float32/float64 matrices of part 1 hold small integers, on which the    *)
(* multiply-accumulate of the hardware is exact, and are modelled as       *)
(* integers.                                                               *)
(***************************************************************************)
EXTENDS Integers, Sequences, FiniteSets, TLC

VARIABLES
    \* ---- matmul kernels -------------------------------------------------
    kern,     \* which kernel runs: "blocked", "plain" or "none"
    elem,     \* element type: "f32" or "f64"
    m, n, k,  \* *pm, *pn, *pk
    blk,      \* the cache-block size (BLOCK_SIZE in the source)
    at, b,    \* the operands AT (K x M) and B (K x N), flat, row-major
    c,        \* the output C (M x N), flat, row-major
    za,       \* the ZA accumulator tile, flat, tw x tw
    i0, j0,   \* origin of the current cache block
    ti, tj,   \* origin of the current tile
    kk,       \* the k-loop counter
    pc,       \* position in the kernel
    zaTerms,  \* history: the k indices accumulated into ZA since it was zeroed
    cTerms,   \* history: for each tile origin stored so far, the k indices summed
    \* ---- the 16-bit conversions of matmul_fmopa_at_f16 / matmul_bfmopa_at_bf16
    cvFmt,    \* "f16" or "bf16"
    cvFlow,   \* "roundtrip": f32 -> 16 -> f32;  "widen": 16 -> f32
    cvBits,   \* the 32-bit pattern given (roundtrip), as <<high half, low half>>
    cvHalf,   \* the 16-bit pattern given (widen) or produced (roundtrip)
    cvBack,   \* the 32-bit pattern produced by widening
    cvPc,     \* "start", "narrowed", "widened" or "idle"
    \* ---- sdpa_fmopa_f32 / sdpa_fmopa_f64 ---------------------------------
    sdElem,   \* "f32" or "f64"
    seqLen, kvLen, headDim,   \* pdims[0], pdims[1], pdims[2]
    scale,    \* *pscale
    hasMask,  \* mask != NULL
    q, kt, v, \* Q (seqLen x headDim), K^T (headDim x kvLen), V (kvLen x headDim)
    mask,     \* the additive mask (seqLen x kvLen), empty when NULL
    output,   \* the output buffer, whole tiles of rows so that a write to a
              \* row beyond seqLen shows
    m_arr,    \* per-row running max of the current row tile
    l_arr,    \* per-row running sum of the current row tile
    qi, kj,   \* origin of the current row tile and of the next KV tile
    sdPc,     \* "entry", "rowtile", "kvtile", "normalize", "done" or "idle"
    sdReads,  \* history: the input arrays read so far
    \* ---- matmul_fmopa_at_f16_strided / matmul_bfmopa_at_bf16_strided ------
    ldc,      \* *pldc: the leading dimension of the output buffer
    coff,     \* *pcoff: the column offset of this call's strip
    stSeed,   \* the operand family of the running call's B strip
    stCalls,  \* history: <<coff, operand family>> of the calls made so far
    \* ---- fused_int8_matmul_neon / fused_nf4_gelu_matmul_neon / fused_int4_gelu_matmul_neon
    fuKern,   \* "int8", "nf4", "int4", or "none"
    M, K, N,  \* *pM, *pK, *pN
    groupSize, numGroups,   \* *pGroupSize, *pNumGroups
    fuRow,    \* the row loop counter (m in the source)
    fuCol,    \* the column loop counter (n in the source)
    fuK,      \* the k loop counter
    fuPc,     \* "acc", "kloop", "done", "fault" or "idle"
    fuAcc,    \* the four accumulator lanes, each the sequence of its terms
    fuReads,  \* history: the weight and scale elements read by the last k step
    fuOut,    \* the output buffer: per element the terms stored, <<>> if none
    fuStores, \* history: the <<row, column>> written by the last store
    \* ---- reduce_min_f32_neon / reduce_max_f32_neon -------------------------
    rdKind,   \* "min", "max" or "none"
    rdLen,    \* *len (n in the source)
    rdInput,  \* the input buffer, flat from 0
    rdResult, \* *result
    rdBefore, \* history: *result when the call was made
    rdI,      \* the loop counter i
    rdVal,    \* min_val / max_val
    rdVecs,   \* min0 .. min3 / max0 .. max3, four lanes each
    rdPc,     \* "entry", "loop16", "loop4", "scalar", "store", "done" or "idle"
    rdReadIdx, \* history: the indices of input read so far
    \* ---- the varint decoders of varint_neon_arm64.c ------------------------
    vaFn,     \* the function called: "ends", "batch", "group32", "group64",
              \* "single", "pair", "five", or "none"
    src,      \* the source bytes, flat from 0 (the buffer may be longer than src_len)
    src_len,  \* src_len (n for find_varint_ends_u8)
    dst_len,  \* dst_len of decode_uvarint64_batch
    vaN,      \* n of decode_uvarint64_batch
    vaPc,     \* "call", "ret" or "idle"
    vaValues, \* the output values (dst, values, *value, *v1 and *v2, *result),
              \* each the set of the positions of its 1 bits
    vaConsumed,  \* *consumed
    vaDecoded,   \* *decoded
    vaReads,  \* history: the indices of src read by the call
    vaLost,   \* history: a shift of the call dropped a 1 bit or was >= the width
    \* ---- the bit products of rabitq_neon_arm64.c and rabitq_sme_arm64.c -----
    rbKern,   \* "neon", "sme" or "none"
    rbLen,    \* *len
    rbSeed,   \* which family of input words code, q1 .. q4 hold
    rbVl,     \* svcntd() of the machine (sme only)
    rbI,      \* i
    rbAcc,    \* the vector accumulators: sumW_vecY lane by lane (neon),
              \* accW lane by lane (sme)
    rbSums,   \* sum1, sum2, sum4, sum8
    rbRes,    \* *res, as <<multiple of 2^16, remainder>>
    rbPc,     \* "enter", "loop8", "loop2", "loop", "reduce", "tail", "store",
              \* "done" or "idle"
    rbCounted, \* history: how many words have been added to the accumulators
    \* ---- masked_load_f32_neon, tbl_u8_neon and round_f32_neon ---------------
    opFn,     \* "masked_load", "tbl", "round" or "none"
    opN,      \* n = *len
    opSeed,   \* which family of inputs the arrays hold
    opI,      \* i
    opPc,     \* "loop16", "loop4", "scalar", "done" or "idle"
    opResult, \* result, from index 0
    opPath    \* history: the loop that stored each index of result

mmVars == <<kern, elem, m, n, k, blk, at, b, c, za, i0, j0, ti, tj, kk, pc,
            zaTerms, cTerms>>

cvVars == <<cvFmt, cvFlow, cvBits, cvHalf, cvBack, cvPc>>

sdVars == <<sdElem, seqLen, kvLen, headDim, scale, hasMask, q, kt, v, mask,
            output, m_arr, l_arr, qi, kj, sdPc, sdReads>>

stVars == <<ldc, coff, stSeed, stCalls>>

fuVars == <<fuKern, M, K, N, groupSize, numGroups, fuRow, fuCol, fuK, fuPc,
            fuAcc, fuReads, fuOut, fuStores>>

rdVars == <<rdKind, rdLen, rdInput, rdResult, rdBefore, rdI, rdVal, rdVecs, rdPc,
            rdReadIdx>>

vaVars == <<vaFn, src, src_len, dst_len, vaN, vaPc, vaValues, vaConsumed, vaDecoded,
            vaReads, vaLost>>

rbVars == <<rbKern, rbLen, rbSeed, rbVl, rbI, rbAcc, rbSums, rbRes, rbPc, rbCounted>>

\* the variables of parts 10 and later
opVars == <<opFn, opN, opSeed, opI, opPc, opResult, opPath>>

lxVars == <<rbVars, opVars>>

exVars == <<stVars, fuVars, rdVars, vaVars, lxVars>>

\* the variables the strided kernels leave alone, and so on
notSt == <<cvVars, sdVars, fuVars, rdVars, vaVars, lxVars>>
notFu == <<mmVars, cvVars, sdVars, stVars, rdVars, vaVars, lxVars>>
notRd == <<mmVars, cvVars, sdVars, stVars, fuVars, vaVars, lxVars>>
notVa == <<mmVars, cvVars, sdVars, stVars, fuVars, rdVars, lxVars>>
notRb == <<mmVars, cvVars, sdVars, stVars, fuVars, rdVars, vaVars, opVars>>
notOp == <<mmVars, cvVars, sdVars, stVars, fuVars, rdVars, vaVars, rbVars>>

vars == <<mmVars, cvVars, sdVars, exVars>>

\* No strided call is in progress.
StIdle == ldc = 0 /\ coff = 0 /\ stSeed = 0 /\ stCalls = <<>>

\* No fused dequantizing kernel is in progress.
FuIdle ==
    /\ fuKern = "none" /\ M = 0 /\ K = 0 /\ N = 0 /\ groupSize = 0 /\ numGroups = 0
    /\ fuRow = 0 /\ fuCol = 0 /\ fuK = 0 /\ fuPc = "idle"
    /\ fuAcc = <<>> /\ fuReads = {} /\ fuOut = <<>> /\ fuStores = {}

\* None of the kernels of parts 6 and later is in progress.
\* No reduction is in progress.
RdIdle ==
    /\ rdKind = "none" /\ rdLen = 0 /\ rdInput = <<>> /\ rdResult = 0 /\ rdBefore = 0
    /\ rdI = 0 /\ rdVal = 0 /\ rdVecs = <<>> /\ rdPc = "idle" /\ rdReadIdx = {}

\* No varint function is being called.
VaIdle ==
    /\ vaFn = "none" /\ src = <<>> /\ src_len = 0 /\ dst_len = 0 /\ vaN = 0
    /\ vaPc = "idle" /\ vaValues = <<>> /\ vaConsumed = 0 /\ vaDecoded = 0
    /\ vaReads = {} /\ vaLost = FALSE

\* No bit product is in progress.
RbIdle ==
    /\ rbKern = "none" /\ rbLen = 0 /\ rbSeed = 0 /\ rbVl = 0 /\ rbI = 0
    /\ rbAcc = <<>> /\ rbSums = <<>> /\ rbRes = <<0, 0>> /\ rbPc = "idle"
    /\ rbCounted = 0

\* None of the kernels of parts 10 and later is in progress.
\* No element-wise operation is in progress.
OpIdle ==
    /\ opFn = "none" /\ opN = 0 /\ opSeed = 0 /\ opI = 0 /\ opPc = "idle"
    /\ opResult = <<>> /\ opPath = <<>>

LxIdle == RbIdle /\ OpIdle

ExIdle == StIdle /\ FuIdle /\ RdIdle /\ VaIdle /\ LxIdle

(***************************************************************************)
(* Bounds of the model.                                                    *)
(***************************************************************************)
MaxMTiles == 4      \* M is 0 .. MaxMTiles tiles
MaxNTiles == 3      \* N is 0 .. MaxNTiles tiles
MaxK == 2           \* K is 0 .. MaxK
MaxSeed == 1        \* operand families 0 .. MaxSeed
MaxBlkTiles == 2    \* block sizes of 1 .. MaxBlkTiles tiles, and BLOCK_SIZE
MaxIdTiles == 2     \* identity operands AT of 1 .. MaxIdTiles tiles

(***************************************************************************)
(* Program constants.                                                      *)
(***************************************************************************)
BLOCK_SIZE == 48
TileF32 == 16
TileF64 == 8

\* What the caller's output buffer and the ZA array hold before the kernel
\* writes them: a value no sum of products of the operands can take.
Poison == 7777

TileW(e) == IF e = "f64" THEN TileF64 ELSE TileF32

\* The operand families: small integers of either sign, zero included.
ValA(seed, idx) == ((seed * 7 + idx * 3) % 5) - 2
ValB(seed, idx) == ((seed * 5 + idx * 2 + 1) % 7) - 3

Range0(len) == 0 .. (len - 1)

Min(x, y) == IF x < y THEN x ELSE y

\* Op applied to the values of its arguments, each computed once.
Strict1(Op(_), x) == CHOOSE z \in {Op(a1) : a1 \in {x}} : TRUE

Strict2(Op(_, _), x, y) == CHOOSE z \in {Op(a1, a2) : a1 \in {x}, a2 \in {y}} : TRUE

(***************************************************************************)
(* The steps of one tile.                                                  *)
(***************************************************************************)
\* A slip in the zeroing: the accumulator starts from ones.
ZeroTile_Ones(tw) == [x \in Range0(tw * tw) |-> 1]

\* svzero_za()
ZeroTile(tw) == [x \in Range0(tw * tw) |-> 0]

\* A slip in the outer product: the A operand is indexed by the column lane.
MopaTile_LaneSlip(tw, z, A, B, mm, nn, kx, tix, tjx) ==
    [x \in Range0(tw * tw) |->
        z[x] + A[kx * mm + tix + (x % tw)] * B[kx * nn + tjx + (x % tw)]]

\* svld1(pg, at + kk*m + ti), svld1(pg, b + kk*n + tj), svmopa(0, pg, pg, a, b):
\* za[r][l] += a_col[r] * b_row[l] for every lane pair.
MopaTile(tw, z, A, B, mm, nn, kx, tix, tjx) ==
    [x \in Range0(tw * tw) |->
        z[x] + A[kx * mm + tix + (x \div tw)] * B[kx * nn + tjx + (x % tw)]]

\* for row in 0..tw-1: svst1(pg, c + (ti+row)*n + tj, svread_hor_za(row)).
\* With n >= tw the tw row stores touch disjoint index ranges, so the loop is
\* one pass over the buffer.
StoreTile(tw, cc, z, nn, tix, tjx) ==
    [idx \in DOMAIN cc |->
        LET d    == idx - (tix * nn + tjx)
            row  == d \div nn
            lane == d % nn
        IN  IF d >= 0 /\ row < tw /\ lane < tw
            THEN z[row * tw + lane]
            ELSE cc[idx]]

(***************************************************************************)
(* Loop control of blockedmatmul_fmopa_at_f32/f64: the four nested for     *)
(* loops i0, j0, ti, tj.  The record is the position after the body of     *)
(* tile (ti, tj) has run.                                                  *)
(***************************************************************************)
\* A slip in the loop nest: entering the next column block does not restart
\* the tile rows at the block's first row.
BlockedAdvance_NoRowRestart(tw, bs, mm, nn, i0x, j0x, tix, tjx) ==
    LET iEnd == Min(i0x + bs, mm)
        jEnd == Min(j0x + bs, nn)
    IN  IF tjx + tw < jEnd
        THEN [i0 |-> i0x, j0 |-> j0x, ti |-> tix, tj |-> tjx + tw, done |-> FALSE]
        ELSE IF tix + tw < iEnd
        THEN [i0 |-> i0x, j0 |-> j0x, ti |-> tix + tw, tj |-> j0x, done |-> FALSE]
        ELSE IF j0x + bs < nn
        THEN [i0 |-> i0x, j0 |-> j0x + bs, ti |-> tix, tj |-> j0x + bs, done |-> FALSE]
        ELSE IF i0x + bs < mm
        THEN [i0 |-> i0x + bs, j0 |-> 0, ti |-> i0x + bs, tj |-> 0, done |-> FALSE]
        ELSE [i0 |-> i0x, j0 |-> j0x, ti |-> tix, tj |-> tjx, done |-> TRUE]

BlockedAdvance(tw, bs, mm, nn, i0x, j0x, tix, tjx) ==
    LET iEnd == Min(i0x + bs, mm)
        jEnd == Min(j0x + bs, nn)
    IN  IF tjx + tw < jEnd
        THEN [i0 |-> i0x, j0 |-> j0x, ti |-> tix, tj |-> tjx + tw, done |-> FALSE]
        ELSE IF tix + tw < iEnd
        THEN [i0 |-> i0x, j0 |-> j0x, ti |-> tix + tw, tj |-> j0x, done |-> FALSE]
        ELSE IF j0x + bs < nn
        THEN [i0 |-> i0x, j0 |-> j0x + bs, ti |-> i0x, tj |-> j0x + bs, done |-> FALSE]
        ELSE IF i0x + bs < mm
        THEN [i0 |-> i0x + bs, j0 |-> 0, ti |-> i0x + bs, tj |-> 0, done |-> FALSE]
        ELSE [i0 |-> i0x, j0 |-> j0x, ti |-> tix, tj |-> tjx, done |-> TRUE]

\* A slip in the loop nest: the row loop ends after its first row of tiles.
PlainAdvance_FirstRowOnly(tw, mm, nn, tix, tjx) ==
    IF tjx + tw < nn
    THEN [ti |-> tix, tj |-> tjx + tw, done |-> FALSE]
    ELSE [ti |-> tix, tj |-> tjx, done |-> TRUE]

\* Loop control of matmul_fmopa_at_f32/f64: for ti, for tj.
PlainAdvance(tw, mm, nn, tix, tjx) ==
    IF tjx + tw < nn
    THEN [ti |-> tix, tj |-> tjx + tw, done |-> FALSE]
    ELSE IF tix + tw < mm
    THEN [ti |-> tix + tw, tj |-> 0, done |-> FALSE]
    ELSE [ti |-> tix, tj |-> tjx, done |-> TRUE]

(***************************************************************************)
(* Initial states: a call of one of the four kernels.                      *)
(***************************************************************************)
BlockSizes(tw) == {t * tw : t \in 1 .. MaxBlkTiles} \cup {BLOCK_SIZE}

\* AT = the mm x mm identity, flat
IdentityT(mm) == [x \in Range0(mm * mm) |-> IF x \div mm = x % mm THEN 1 ELSE 0]

\* The operands are of a family with a small K, or AT is an identity (K = M).
MMInit ==
    /\ kern \in {"blocked", "plain"}
    /\ elem \in {"f32", "f64"}
    /\ \E mt \in 0 .. MaxMTiles, nt \in 0 .. MaxNTiles, seed \in 0 .. MaxSeed :
          /\ m = mt * TileW(elem)
          /\ n = nt * TileW(elem)
          /\ \/ k \in 0 .. MaxK /\ at = [x \in Range0(k * m) |-> ValA(seed, x)]
             \/ mt \in 1 .. MaxIdTiles /\ k = m /\ at = IdentityT(m)
          /\ b = [x \in Range0(k * n) |-> ValB(seed, x)]
    /\ blk \in (IF kern = "blocked" THEN BlockSizes(TileW(elem)) ELSE {BLOCK_SIZE})
    /\ c = [x \in Range0(m * n) |-> Poison]
    /\ za = [x \in Range0(TileW(elem) * TileW(elem)) |-> Poison]
    /\ i0 = 0 /\ j0 = 0 /\ ti = 0 /\ tj = 0 /\ kk = 0
    \* the loops over i0/j0/ti/tj do not run at all when m <= 0 or n <= 0
    /\ pc = IF m > 0 /\ n > 0 THEN "zero" ELSE "done"
    /\ zaTerms = <<>>
    /\ cTerms = << >>

(***************************************************************************)
(* blockedmatmul_fmopa_at_f32 / blockedmatmul_fmopa_at_f64                 *)
(***************************************************************************)
BlockedZero ==
    /\ kern = "blocked" /\ pc = "zero"
    /\ za' = ZeroTile(TileW(elem))
    /\ kk' = 0
    /\ zaTerms' = <<>>
    /\ pc' = "kloop"
    /\ UNCHANGED <<kern, elem, m, n, k, blk, at, b, c, i0, j0, ti, tj, cTerms>>
    /\ UNCHANGED <<cvVars, sdVars, exVars>>

BlockedMopa ==
    /\ kern = "blocked" /\ pc = "kloop" /\ kk < k
    /\ za' = MopaTile(TileW(elem), za, at, b, m, n, kk, ti, tj)
    /\ zaTerms' = Append(zaTerms, kk)
    /\ kk' = kk + 1
    /\ UNCHANGED <<kern, elem, m, n, k, blk, at, b, c, i0, j0, ti, tj, pc, cTerms>>
    /\ UNCHANGED <<cvVars, sdVars, exVars>>

BlockedStore ==
    /\ kern = "blocked" /\ pc = "kloop" /\ ~(kk < k)
    /\ c' = StoreTile(TileW(elem), c, za, n, ti, tj)
    /\ cTerms' = Append(cTerms, <<ti, tj, zaTerms>>)
    /\ LET nx == BlockedAdvance(TileW(elem), blk, m, n, i0, j0, ti, tj)
       IN  /\ i0' = nx.i0 /\ j0' = nx.j0 /\ ti' = nx.ti /\ tj' = nx.tj
           /\ pc' = IF nx.done THEN "done" ELSE "zero"
    /\ UNCHANGED <<kern, elem, m, n, k, blk, at, b, za, kk, zaTerms>>
    /\ UNCHANGED <<cvVars, sdVars, exVars>>

(***************************************************************************)
(* matmul_fmopa_at_f32 / matmul_fmopa_at_f64                               *)
(***************************************************************************)
PlainZero ==
    /\ kern = "plain" /\ pc = "zero"
    /\ za' = ZeroTile(TileW(elem))
    /\ kk' = 0
    /\ zaTerms' = <<>>
    /\ pc' = "kloop"
    /\ UNCHANGED <<kern, elem, m, n, k, blk, at, b, c, i0, j0, ti, tj, cTerms>>
    /\ UNCHANGED <<cvVars, sdVars, exVars>>

PlainMopa ==
    /\ kern = "plain" /\ pc = "kloop" /\ kk < k
    /\ za' = MopaTile(TileW(elem), za, at, b, m, n, kk, ti, tj)
    /\ zaTerms' = Append(zaTerms, kk)
    /\ kk' = kk + 1
    /\ UNCHANGED <<kern, elem, m, n, k, blk, at, b, c, i0, j0, ti, tj, pc, cTerms>>
    /\ UNCHANGED <<cvVars, sdVars, exVars>>

PlainStore ==
    /\ kern = "plain" /\ pc = "kloop" /\ ~(kk < k)
    /\ c' = StoreTile(TileW(elem), c, za, n, ti, tj)
    /\ cTerms' = Append(cTerms, <<ti, tj, zaTerms>>)
    /\ LET nx == PlainAdvance(TileW(elem), m, n, ti, tj)
       IN  /\ ti' = nx.ti /\ tj' = nx.tj
           /\ pc' = IF nx.done THEN "done" ELSE "zero"
    /\ UNCHANGED <<kern, elem, m, n, k, blk, at, b, za, kk, i0, j0, zaTerms>>
    /\ UNCHANGED <<cvVars, sdVars, exVars>>

MMNext ==
    \/ BlockedZero
    \/ BlockedMopa
    \/ BlockedStore
    \/ PlainZero
    \/ PlainMopa
    \/ PlainStore

\* No conversion is in progress.
CvIdle ==
    /\ cvFmt = "none" /\ cvFlow = "none" /\ cvBits = <<0, 0>>
    /\ cvHalf = 0 /\ cvBack = <<0, 0>> /\ cvPc = "idle"

SdIdle ==
    /\ sdElem = "none" /\ seqLen = 0 /\ kvLen = 0 /\ headDim = 0 /\ scale = 0
    /\ hasMask = FALSE /\ q = <<>> /\ kt = <<>> /\ v = <<>> /\ mask = <<>>
    /\ output = <<>> /\ m_arr = <<>> /\ l_arr = <<>>
    /\ qi = 0 /\ kj = 0 /\ sdPc = "idle" /\ sdReads = {}

Init == MMInit /\ CvIdle /\ SdIdle /\ ExIdle

Next == MMNext

Spec == Init /\ [][Next]_vars

(***************************************************************************)
(* The reference product: the naive triple loop.                           *)
(***************************************************************************)
RECURSIVE DotRef(_, _, _, _, _, _, _)
DotRef(A, B, mm, nn, i, j, kx) ==
    IF kx = 0 THEN 0
    ELSE DotRef(A, B, mm, nn, i, j, kx - 1)
         + A[(kx - 1) * mm + i] * B[(kx - 1) * nn + j]

\* C1: when blockedmatmul_fmopa_at_f32/f64 returns, C[i*N + j] is the sum over
\* k = 0..K-1 of AT[k*M + i] * B[k*N + j] for every i < M and j < N (all zero
\* when K = 0).
C1_BlockedEqualsReference ==
    (kern = "blocked" /\ pc = "done") =>
        \A i \in Range0(m) : \A j \in Range0(n) :
            c[i * n + j] = DotRef(at, b, m, n, i, j, k)

\* C1 witness: a blocked call that crossed a cache-block boundary in M and in
\* N with K > 1 has returned.
C1_Witness ==
    /\ kern = "blocked" /\ pc = "done"
    /\ k > 1 /\ m > blk /\ n > blk
    /\ \E i \in Range0(m) : \E j \in Range0(n) : c[i * n + j] # 0

(***************************************************************************)
(* What matmul_fmopa_at_f32/f64 leaves in C, as a function of the call's   *)
(* arguments: its tile loop run to the end from buffer cc at tile          *)
(* (tix, tjx).                                                             *)
(***************************************************************************)
RECURSIVE MopaAll(_, _, _, _, _, _, _, _, _)
MopaAll(tw, z, A, B, mm, nn, kEnd, tix, tjx) ==
    IF kEnd = 0 THEN z
    ELSE Strict1(LAMBDA z1 : MopaTile(tw, z1, A, B, mm, nn, kEnd - 1, tix, tjx),
                 MopaAll(tw, z, A, B, mm, nn, kEnd - 1, tix, tjx))

RECURSIVE PlainRun(_, _, _, _, _, _, _, _, _)
PlainRun(tw, cc, A, B, mm, nn, kEnd, tix, tjx) ==
    LET z  == MopaAll(tw, ZeroTile(tw), A, B, mm, nn, kEnd, tix, tjx)
        c1 == StoreTile(tw, cc, z, nn, tix, tjx)
        nx == PlainAdvance(tw, mm, nn, tix, tjx)
    IN  IF nx.done THEN c1
        ELSE PlainRun(tw, c1, A, B, mm, nn, kEnd, nx.ti, nx.tj)

PlainC ==
    IF m > 0 /\ n > 0
    THEN PlainRun(TileW(elem), [x \in Range0(m * n) |-> Poison], at, b, m, n, k, 0, 0)
    ELSE [x \in Range0(m * n) |-> Poison]

\* The tile origins of an M x N output.
TileOrigins == {<<r * TileW(elem), qt * TileW(elem)>> :
                    r \in Range0(m \div TileW(elem)), qt \in Range0(n \div TileW(elem))}

\* The k indices 0, 1, ..., K-1 in ascending order.
AscendingK == [x \in 1 .. k |-> x - 1]

\* C4: whatever the cache-block size (a multiple of the tile width, 48 being the
\* built-in one), the blocked driver returns the C that the un-blocked
\* matmul_fmopa_at_f32/f64 returns for the same AT and B; it visits every tile
\* once and sums into each the k-terms 0..K-1 in ascending order. The block size
\* changes only the order of the tiles.
C4_BlockingInvariance ==
    (pc = "done") =>
        /\ c = PlainC
        /\ Len(cTerms) = Cardinality(TileOrigins)
        /\ {<<cTerms[x][1], cTerms[x][2]>> : x \in DOMAIN cTerms} = TileOrigins
        /\ \A x \in DOMAIN cTerms : cTerms[x][3] = AscendingK

\* C4 witness: a blocked call whose block size is not the built-in one and
\* whose tile order differs from the un-blocked kernel's (the second tile
\* visited is below the first, not to its right) has returned.
C4_Witness ==
    /\ kern = "blocked" /\ pc = "done" /\ blk # BLOCK_SIZE /\ k > 0
    /\ Len(cTerms) > 2
    /\ cTerms[2][1] > cTerms[1][1]

\* AT is the M x M identity and K = M.
IsIdentityCall ==
    /\ m > 0 /\ k = m
    /\ \A x \in DOMAIN at : at[x] = (IF x \div m = x % m THEN 1 ELSE 0)

\* C11: when AT is the M x M identity (K = M, M and N multiples of the tile
\* width) and B is a finite K x N matrix, matmul_fmopa_at_f32 and
\* blockedmatmul_fmopa_at_f32 (and the f64 kernels) return C equal to B,
\* element for element.
C11_IdentityCopiesB ==
    (pc = "done" /\ kern \in {"blocked", "plain"} /\ IsIdentityCall) => c = b

\* C11 witness: a call with a two-tile identity and a B of several tiles, with
\* entries that differ, has returned B.
C11_Witness ==
    /\ pc = "done" /\ kern = "blocked" /\ elem = "f32" /\ IsIdentityCall
    /\ m > TileF32 /\ n > TileF32
    /\ c = b
    /\ \E x \in DOMAIN b : \E y \in DOMAIN b : b[x] # b[y] /\ b[x] # 0 /\ b[y] # 0

(***************************************************************************)
(* Part 2: the 16-bit conversions of matmul_fmopa_at_f16 and               *)
(*         matmul_bfmopa_at_bf16 (matmul_sme_arm64.c).                     *)
(*                                                                         *)
(* A 32-bit lane (svuint32_t element) is the pair <<hi, lo>> of its 16-bit *)
(* halves, so that every operation keeps its 32-bit width: sums and        *)
(* differences wrap modulo 2^32 and shifts drop the bits they push out.    *)
(***************************************************************************)
Half == 65536

RECURSIVE Pow2(_)
Pow2(e) == IF e = 0 THEN 1 ELSE 2 * Pow2(e - 1)

\* svadd_u32_x
Add32(x, y) ==
    LET lo == x[2] + y[2]
    IN  <<(x[1] + y[1] + (lo \div Half)) % Half, lo % Half>>

\* svsub_u32_x
Sub32(x, y) ==
    LET lo == x[2] - y[2]
        borrow == IF lo < 0 THEN 1 ELSE 0
    IN  <<(x[1] - y[1] - borrow + 2 * Half) % Half, (lo + Half) % Half>>

\* svlsr_n_u32_x, for a shift of 1..16
Lsr32(x, sh) ==
    <<x[1] \div Pow2(sh),
      ((x[1] % Pow2(sh)) * Pow2(16 - sh) + (x[2] \div Pow2(sh))) % Half>>

\* svlsl_n_u32_x, for a shift of 1..16
Lsl32(x, sh) ==
    <<((x[1] % Pow2(16 - sh)) * Pow2(sh) + (x[2] \div Pow2(16 - sh))) % Half,
      (x[2] % Pow2(16 - sh)) * Pow2(sh)>>

\* svand_n_u32_x(pg, x, 1)
And1(x) == <<0, x[2] % 2>>

\* svadd_n_u32_x(pg, x, imm) for an immediate below 2^16
AddN32(x, imm) == Add32(x, <<0, imm>>)

\* svunpklo_u32 of a loaded unsigned short: zero extension
Unpk(h) == <<0, h>>

\* svst1h_u32: the low 16 bits of the lane are stored
St1h(x) == x[2]

\* svdup_n_u32(112 << 23) = 0x38000000
ExpAdjust == <<112 * 128, 0>>

\* f16 -> f32 of matmul_fmopa_at_f16: shift left 13, add the exponent bias
WidenF16(h) == Add32(Lsl32(Unpk(h), 13), ExpAdjust)

\* f32 -> f16 of matmul_fmopa_at_f16: subtract the bias, round, shift right 13
NarrowF16(bits) ==
    LET d         == Sub32(bits, ExpAdjust)
        round_bit == And1(Lsr32(d, 13))
        rounding  == AddN32(round_bit, 4095)
    IN  St1h(Lsr32(Add32(d, rounding), 13))

\* bf16 -> f32 of matmul_bfmopa_at_bf16: shift left 16
WidenBF16(h) == Lsl32(Unpk(h), 16)

\* f32 -> bf16 of matmul_bfmopa_at_bf16: add 0x7FFF + bit 16, shift right 16
NarrowBF16(bits) ==
    LET bit16    == And1(Lsr32(bits, 16))
        rounding == AddN32(bit16, 32767)
    IN  St1h(Lsr32(Add32(bits, rounding), 16))

Widen(fmt, h) == IF fmt = "f16" THEN WidenF16(h) ELSE WidenBF16(h)
Narrow(fmt, bits) == IF fmt = "f16" THEN NarrowF16(bits) ELSE NarrowBF16(bits)

(***************************************************************************)
(* The formats (IEEE 754 binary32, binary16, and bfloat16): sign,          *)
(* exponent field and mantissa field of a pattern.                         *)
(***************************************************************************)
ManBits(fmt) == IF fmt = "f16" THEN 10 ELSE 7          \* mantissa field width
ExpMax(fmt)  == IF fmt = "f16" THEN 30 ELSE 254        \* largest normal exponent field
Bias(fmt)    == IF fmt = "f16" THEN 15 ELSE 127
DropBits(fmt) == 23 - ManBits(fmt)                     \* f32 mantissa bits it lacks

F32Sign(x) == x[1] \div 32768
F32Exp(x)  == (x[1] \div 128) % 256
F32Man(x)  == (x[1] % 128) * Half + x[2]
MkF32(sg, ex, man) == <<sg * 32768 + ex * 128 + (man \div Half), man % Half>>

H16Sign(fmt, h) == h \div 32768
H16Exp(fmt, h)  == (h % 32768) \div Pow2(ManBits(fmt))
H16Man(fmt, h)  == h % Pow2(ManBits(fmt))
MkH16(fmt, sg, ex, man) == sg * 32768 + ex * Pow2(ManBits(fmt)) + man

\* The exponent field an f32 value has in the 16-bit format.
ExpIn(fmt, x) == F32Exp(x) - 127 + Bias(fmt)

F32IsZero(x) == F32Exp(x) = 0 /\ F32Man(x) = 0

\* The f32 value lies in the normal range of the 16-bit format.
InNormalRange(fmt, x) == F32Exp(x) # 255 /\ ExpIn(fmt, x) >= 1 /\ ExpIn(fmt, x) <= ExpMax(fmt)

\* The f32 value is a zero or a normal value of the 16-bit format.
Representable(fmt, x) ==
    \/ F32IsZero(x)
    \/ InNormalRange(fmt, x) /\ F32Man(x) % Pow2(DropBits(fmt)) = 0

\* The numeric value of a zero or normal pattern: sign, power of two, and
\* fraction in units of 2^-23.
Value32(x) ==
    IF F32IsZero(x) THEN <<F32Sign(x), "zero", 0>>
    ELSE <<F32Sign(x), F32Exp(x) - 127, F32Man(x)>>
Value16(fmt, h) ==
    IF H16Exp(fmt, h) = 0 /\ H16Man(fmt, h) = 0 THEN <<H16Sign(fmt, h), "zero", 0>>
    ELSE <<H16Sign(fmt, h), H16Exp(fmt, h) - Bias(fmt),
           H16Man(fmt, h) * Pow2(DropBits(fmt))>>

\* IEEE 754 conversion of a zero or normal 16-bit pattern to binary32: exact.
ExactWiden(fmt, h) ==
    IF H16Exp(fmt, h) = 0 /\ H16Man(fmt, h) = 0 THEN MkF32(H16Sign(fmt, h), 0, 0)
    ELSE MkF32(H16Sign(fmt, h), H16Exp(fmt, h) - Bias(fmt) + 127,
               H16Man(fmt, h) * Pow2(DropBits(fmt)))

\* IEEE 754 round-to-nearest, ties-to-even, of a binary32 value that is zero
\* or in the normal range of the 16-bit format: keep the top mantissa bits, go
\* one up when the dropped part is above half a unit, or is half a unit and
\* the kept mantissa is odd; a mantissa that overflows carries into the
\* exponent.
NearestEven16(fmt, x) ==
    IF F32IsZero(x) THEN MkH16(fmt, F32Sign(x), 0, 0)
    ELSE LET unit == Pow2(DropBits(fmt))
             qt    == F32Man(x) \div unit
             rem  == F32Man(x) % unit
             up   == rem * 2 > unit \/ (rem * 2 = unit /\ qt % 2 = 1)
         IN  MkH16(fmt, F32Sign(x), ExpIn(fmt, x), 0) + qt + (IF up THEN 1 ELSE 0)

(***************************************************************************)
(* Conversion inputs and steps.                                            *)
(***************************************************************************)
MaxExpOff == 1     \* exponents this far from the ends and the middle of the range
MaxQ == 1          \* kept mantissas this far from all-zeros and all-ones
MaxRemOff == 1     \* dropped parts this far from 0, half a unit, and the top

ExpFields32(fmt) ==
    LET lo == 1 - Bias(fmt) + 127
        hi == ExpMax(fmt) - Bias(fmt) + 127
    IN  (lo .. lo + MaxExpOff) \cup (127 - MaxExpOff .. 127 + MaxExpOff)
            \cup (hi - MaxExpOff .. hi)

KeptMans(fmt) ==
    (0 .. MaxQ) \cup (Pow2(ManBits(fmt)) - 1 - MaxQ .. Pow2(ManBits(fmt)) - 1)

DroppedParts(fmt) ==
    LET unit == Pow2(DropBits(fmt))
    IN  (0 .. MaxRemOff) \cup (unit \div 2 - MaxRemOff .. unit \div 2 + MaxRemOff)
            \cup (unit - 1 - MaxRemOff .. unit - 1)

\* Zeros and normal values of either sign, on and between the 16-bit values.
Patterns32(fmt) ==
    {MkF32(sg, 0, 0) : sg \in {0, 1}} \cup
    {MkF32(sg, ex, qt * Pow2(DropBits(fmt)) + rem) :
        sg \in {0, 1}, ex \in ExpFields32(fmt), qt \in KeptMans(fmt),
        rem \in DroppedParts(fmt)}

\* Zeros and normal 16-bit patterns of either sign.
Patterns16(fmt) ==
    {MkH16(fmt, sg, 0, 0) : sg \in {0, 1}} \cup
    {MkH16(fmt, sg, ex, qt) :
        sg \in {0, 1},
        ex \in (1 .. 1 + MaxExpOff) \cup (Bias(fmt) - MaxExpOff .. Bias(fmt) + MaxExpOff)
                  \cup (ExpMax(fmt) - MaxExpOff .. ExpMax(fmt)),
        qt \in KeptMans(fmt)}

MMIdle ==
    /\ kern = "none" /\ elem = "none" /\ m = 0 /\ n = 0 /\ k = 0 /\ blk = 0
    /\ at = <<>> /\ b = <<>> /\ c = <<>> /\ za = <<>>
    /\ i0 = 0 /\ j0 = 0 /\ ti = 0 /\ tj = 0 /\ kk = 0 /\ pc = "idle"
    /\ zaTerms = <<>> /\ cTerms = <<>>

CvInit ==
    /\ cvFmt \in {"f16", "bf16"}
    /\ cvFlow \in {"roundtrip", "widen"}
    /\ IF cvFlow = "roundtrip"
       THEN cvBits \in Patterns32(cvFmt) /\ cvHalf = 0
       ELSE cvBits = <<0, 0>> /\ cvHalf \in Patterns16(cvFmt)
    /\ cvBack = <<0, 0>>
    /\ cvPc = "start"

\* The store loop's conversion of one accumulator lane.
CvNarrow ==
    /\ cvFlow = "roundtrip" /\ cvPc = "start"
    /\ cvHalf' = Narrow(cvFmt, cvBits)
    /\ cvPc' = "narrowed"
    /\ UNCHANGED <<cvFmt, cvFlow, cvBits, cvBack>>
    /\ UNCHANGED <<mmVars, sdVars, exVars>>

\* The k loop's conversion of one loaded element.
CvWiden ==
    /\ \/ cvFlow = "roundtrip" /\ cvPc = "narrowed"
       \/ cvFlow = "widen" /\ cvPc = "start"
    /\ cvBack' = Widen(cvFmt, cvHalf)
    /\ cvPc' = "widened"
    /\ UNCHANGED <<cvFmt, cvFlow, cvBits, cvHalf>>
    /\ UNCHANGED <<mmVars, sdVars, exVars>>

CvNext == CvNarrow \/ CvWiden

InitCvt == MMIdle /\ CvInit /\ SdIdle /\ ExIdle

SpecCvt == InitCvt /\ [][CvNext]_vars

\* C5: a 32-bit pattern whose value the 16-bit format holds exactly (a zero or
\* a normal value, of either sign) comes back unchanged from the kernel's
\* narrowing followed by its widening, for half precision and for bf16.
C5_RoundTripExact ==
    (cvFlow = "roundtrip" /\ cvPc = "widened" /\ Representable(cvFmt, cvBits))
        => cvBack = cvBits

\* C6: a finite 32-bit value in the normal range of the 16-bit format that the
\* format does not hold exactly is narrowed to the nearest 16-bit value, to
\* the one with an even mantissa on a tie, carries into the exponent included.
C6_NarrowNearestEven ==
    (cvFlow = "roundtrip" /\ cvPc # "start"
        /\ InNormalRange(cvFmt, cvBits) /\ ~Representable(cvFmt, cvBits))
        => cvHalf = NearestEven16(cvFmt, cvBits)

(***************************************************************************)
(* Part 3: the kernels matmul_fmopa_at_f16 and matmul_bfmopa_at_bf16.      *)
(*                                                                         *)
(* AT, B and C hold 16-bit patterns; a ZA lane holds a binary32 pattern.   *)
(* FMOPA multiplies and accumulates in binary32 with one rounding          *)
(* (to nearest, ties to even).  Patterns with exponent field 0 are read as *)
(* zero, and results are kept in the normal range by the operand families  *)
(* of the model.                                                           *)
(***************************************************************************)
F32Sig(x) == IF F32Exp(x) = 0 THEN 0 ELSE 8388608 + F32Man(x)

\* The product of two lanes that were widened from 16 bits: both have their
\* low 13 mantissa bits clear, so the 22-bit product of the upper 11 bits is
\* the exact product.  <<sign, exponent field, 24-bit significand>>.
ProdWidened(x, y) ==
    LET sg == (F32Sign(x) + F32Sign(y)) % 2
        p  == (F32Sig(x) \div 8192) * (F32Sig(y) \div 8192)
        e  == F32Exp(x) + F32Exp(y) - 127
    IN  IF p = 0 THEN <<sg, 0, 0>>
        ELSE IF p >= 2097152 THEN <<sg, e + 1, p * 4>>
        ELSE <<sg, e, p * 8>>

\* sig shifted right by d bits, the bits shifted out OR-ed into the last bit.
ShiftSticky(sig, d) ==
    IF d = 0 THEN sig
    ELSE IF d >= 28 THEN (IF sig = 0 THEN 0 ELSE 1)
    ELSE LET qt == sig \div Pow2(d)
         IN  IF sig % Pow2(d) = 0 \/ qt % 2 = 1 THEN qt ELSE qt + 1

RECURSIVE NormLeft(_, _)
NormLeft(sig, e) == IF sig >= 67108864 THEN <<sig, e>> ELSE NormLeft(sig * 2, e - 1)

\* Round a 27-bit significand (24 bits and guard, round, sticky) to nearest,
\* ties to even, and pack it.
RoundPack(sg, e, sig) ==
    LET qt  == sig \div 8
        r  == sig % 8
        q1 == IF r > 4 \/ (r = 4 /\ qt % 2 = 1) THEN qt + 1 ELSE qt
        e1 == IF q1 >= 16777216 THEN e + 1 ELSE e
        q2 == IF q1 >= 16777216 THEN q1 \div 2 ELSE q1
    IN  IF e1 >= 255 THEN MkF32(sg, 255, 0)
        ELSE IF e1 <= 0 THEN MkF32(sg, 0, 0)
        ELSE MkF32(sg, e1, q2 - 8388608)

\* acc + prod in binary32, rounded once.
AddProd(acc, prod) ==
    LET sa == F32Sign(acc)
        ea == F32Exp(acc)
        ma == F32Sig(acc)
        sp == prod[1]
        ep == prod[2]
        mp == prod[3]
    IN  IF ma = 0 /\ mp = 0 THEN MkF32(IF sa = 1 /\ sp = 1 THEN 1 ELSE 0, 0, 0)
        ELSE IF ma = 0 THEN RoundPack(sp, ep, mp * 8)
        ELSE IF mp = 0 THEN acc
        ELSE LET accBig == ea > ep \/ (ea = ep /\ ma >= mp)
                 sx == IF accBig THEN sa ELSE sp
                 ex == IF accBig THEN ea ELSE ep
                 mx == IF accBig THEN ma ELSE mp
                 sy == IF accBig THEN sp ELSE sa
                 ey == IF accBig THEN ep ELSE ea
                 my == IF accBig THEN mp ELSE ma
                 gx == mx * 8
                 gy == ShiftSticky(my * 8, ex - ey)
             IN  IF sx = sy
                 THEN LET sum == gx + gy
                      IN  IF sum >= 134217728
                          THEN RoundPack(sx, ex + 1, ShiftSticky(sum, 1))
                          ELSE RoundPack(sx, ex, sum)
                 ELSE IF gx = gy THEN MkF32(0, 0, 0)
                 ELSE LET nl == NormLeft(gx - gy, ex)
                      IN  RoundPack(sx, nl[2], nl[1])

(***************************************************************************)
(* The steps of one tile of the 16-bit kernels.                            *)
(***************************************************************************)
\* svzero_za(): every lane is +0.0
ZeroTileBits(tw) == [x \in Range0(tw * tw) |-> <<0, 0>>]

\* svld1_u16, svunpklo_u32, the widening shifts, svmopa_za32_f32_m
MopaTileHalf(fmt, tw, z, A, B, mm, nn, kx, tix, tjx) ==
    [x \in Range0(tw * tw) |->
        AddProd(z[x], ProdWidened(Widen(fmt, A[kx * mm + tix + (x \div tw)]),
                                  Widen(fmt, B[kx * nn + tjx + (x % tw)])))]

\* svread_hor_za32_f32_m, the narrowing, svst1h_u32, for the 16 rows
StoreTileHalf(fmt, tw, cc, z, nn, tix, tjx) ==
    [idx \in DOMAIN cc |->
        LET d    == idx - (tix * nn + tjx)
            row  == d \div nn
            lane == d % nn
        IN  IF d >= 0 /\ row < tw /\ lane < tw
            THEN Narrow(fmt, z[row * tw + lane])
            ELSE cc[idx]]

MaxHalfTiles == 2   \* M and N are 1 .. MaxHalfTiles tiles
MaxHalfK == 2       \* K is 0 .. MaxHalfK
MaxHalfSeed == 1    \* operand families 0 .. MaxHalfSeed

\* The operand values of the model, the same numbers in both formats:
\* 1, 2, -1, 0, 1.5, -2, 0.5, 3.
HVal(fmt, code) ==
    LET top == Pow2(ManBits(fmt) - 1)
    IN  CASE code = 0 -> MkH16(fmt, 0, Bias(fmt), 0)
          [] code = 1 -> MkH16(fmt, 0, Bias(fmt) + 1, 0)
          [] code = 2 -> MkH16(fmt, 1, Bias(fmt), 0)
          [] code = 3 -> MkH16(fmt, 0, 0, 0)
          [] code = 4 -> MkH16(fmt, 0, Bias(fmt), top)
          [] code = 5 -> MkH16(fmt, 1, Bias(fmt) + 1, 0)
          [] code = 6 -> MkH16(fmt, 0, Bias(fmt) - 1, 0)
          [] OTHER    -> MkH16(fmt, 0, Bias(fmt) + 1, top)

HalfA(fmt, seed, idx) == HVal(fmt, (seed * 3 + idx * 5) % 8)
HalfB(fmt, seed, idx) == HVal(fmt, (seed * 5 + idx * 3 + 1) % 8)

HalfInit ==
    /\ kern = "half"
    /\ elem \in {"f16", "bf16"}
    /\ \E mt \in 1 .. MaxHalfTiles, nt \in 1 .. MaxHalfTiles, seed \in 0 .. MaxHalfSeed :
          /\ m = mt * TileF32
          /\ n = nt * TileF32
          /\ k \in 0 .. MaxHalfK
          /\ at = [x \in Range0(k * m) |-> HalfA(elem, seed, x)]
          /\ b = [x \in Range0(k * n) |-> HalfB(elem, seed, x)]
    /\ blk = 0
    /\ c = [x \in Range0(m * n) |-> Poison]
    /\ za = [x \in Range0(TileF32 * TileF32) |-> <<Poison, Poison>>]
    /\ i0 = 0 /\ j0 = 0 /\ ti = 0 /\ tj = 0 /\ kk = 0
    /\ pc = "zero"
    /\ zaTerms = <<>>
    /\ cTerms = <<>>

HalfZero ==
    /\ kern = "half" /\ pc = "zero"
    /\ za' = ZeroTileBits(TileF32)
    /\ kk' = 0
    /\ zaTerms' = <<>>
    /\ pc' = "kloop"
    /\ UNCHANGED <<kern, elem, m, n, k, blk, at, b, c, i0, j0, ti, tj, cTerms>>
    /\ UNCHANGED <<cvVars, sdVars, exVars>>

HalfMopa ==
    /\ kern = "half" /\ pc = "kloop" /\ kk < k
    /\ za' = MopaTileHalf(elem, TileF32, za, at, b, m, n, kk, ti, tj)
    /\ zaTerms' = Append(zaTerms, kk)
    /\ kk' = kk + 1
    /\ UNCHANGED <<kern, elem, m, n, k, blk, at, b, c, i0, j0, ti, tj, pc, cTerms>>
    /\ UNCHANGED <<cvVars, sdVars, exVars>>

HalfStore ==
    /\ kern = "half" /\ pc = "kloop" /\ ~(kk < k)
    /\ c' = StoreTileHalf(elem, TileF32, c, za, n, ti, tj)
    /\ cTerms' = Append(cTerms, <<ti, tj, zaTerms>>)
    /\ LET nx == PlainAdvance(TileF32, m, n, ti, tj)
       IN  /\ ti' = nx.ti /\ tj' = nx.tj
           /\ pc' = IF nx.done THEN "done" ELSE "zero"
    /\ UNCHANGED <<kern, elem, m, n, k, blk, at, b, za, kk, i0, j0, zaTerms>>
    /\ UNCHANGED <<cvVars, sdVars, exVars>>

HalfNext == HalfZero \/ HalfMopa \/ HalfStore

InitHalf == HalfInit /\ CvIdle /\ SdIdle /\ ExIdle

SpecHalf == InitHalf /\ [][HalfNext]_vars

\* The f32 kernel's sum for output element (i, j) on the numerically equal
\* operands: the exact widening of each 16-bit element, accumulated for
\* k = 0 .. kEnd-1 in binary32.
RECURSIVE F32DotExact(_, _, _, _)
F32DotExact(fmt, i, j, kEnd) ==
    IF kEnd = 0 THEN <<0, 0>>
    ELSE AddProd(F32DotExact(fmt, i, j, kEnd - 1),
                 ProdWidened(ExactWiden(fmt, at[(kEnd - 1) * m + i]),
                             ExactWiden(fmt, b[(kEnd - 1) * n + j])))

\* C7: the 16-bit kernels run the f32 tile algorithm on numerically equal
\* operands: every element loaded (positive, negative or zero) is widened to
\* the binary32 value with the same sign and magnitude, and every output
\* element is the 16-bit narrowing of the binary32 sum over k of the widened
\* AT[k][i] * B[k][j].
C7_HalfKernelIsF32OnEqualOperands ==
    (kern = "half" /\ pc = "done") =>
        /\ \A x \in DOMAIN at : Value32(Widen(elem, at[x])) = Value16(elem, at[x])
        /\ \A x \in DOMAIN b : Value32(Widen(elem, b[x])) = Value16(elem, b[x])
        /\ \A i \in Range0(m) : \A j \in Range0(n) :
              c[i * n + j] = NearestEven16(elem, F32DotExact(elem, i, j, k))

(***************************************************************************)
(* Part 4: scaled dot-product attention (sdpa_sme_arm64.c).                *)
(*                                                                         *)
(* Numbers.  A float or double lane is <<kind, n, d, e>>: kind "fin" is    *)
(* the value (n / d) * 2^e with n and d odd and coprime (zero is           *)
(* <<"fin", 0, 1, 0>>; the sign of a zero is not kept); the other kinds    *)
(* are "ninf", "pinf" and "nan", with the IEEE-754 rules for arithmetic    *)
(* and comparison.  Addition is exact while the sum fits the significand   *)
(* (24 bits for float, 53 for double) and returns the larger operand when  *)
(* the smaller lies below a quarter of its last place, as                  *)
(* round-to-nearest does; a result that would need any other rounding has  *)
(* kind "inexact" and the inputs of the model stay away from it.           *)
(*                                                                         *)
(* Scores are measured in units of ln 2: the model's score j stands for    *)
(* the float j * ln 2.  In these units inv_ln2 is 1, ln2_hi + ln2_lo is 1, *)
(* the clamps -87.3365f and -708.396 are -126 and -1022, and for an        *)
(* integer score the range reduction leaves r = 0, where the Horner        *)
(* polynomial is 1 and the scalar exp returns the power of two 2^k.        *)
(***************************************************************************)
Zero == <<"fin", 0, 1, 0>>

NegInf == <<"ninf", 0, 1, 0>>

PosInf == <<"pinf", 0, 1, 0>>

NaN == <<"nan", 0, 1, 0>>

Inexact == <<"inexact", 0, 1, 0>>

Abs(x) == IF x < 0 THEN -x ELSE x

RECURSIVE BitLen(_)
BitLen(x) == IF x = 0 THEN 0 ELSE 1 + Strict1(BitLen, x \div 2)

RECURSIVE Gcd(_, _)
Gcd(x, y) == IF y = 0 THEN x ELSE Strict2(Gcd, y, x % y)

\* <<odd part of x, e + the number of factors 2 of x>>, for x # 0
RECURSIVE StripTwos(_, _)
StripTwos(x, e) ==
    IF x % 2 = 0 THEN Strict2(StripTwos, x \div 2, e + 1) ELSE <<x, e>>

\* the lane holding (x / y) * 2^e, for y > 0
MkVal(x, y, e) ==
    IF x = 0 THEN Zero
    ELSE Strict1(LAMBDA g :
             Strict2(LAMBDA sn, sd : <<"fin", sn[1], sd[1], sn[2] - sd[2]>>,
                     StripTwos(x \div g, e), StripTwos(y \div g, 0)),
             Gcd(Abs(x), y))

MkNum(x, y, e) == Strict2(LAMBDA a1, a2 : MkVal(a1, a2, e), x, y)

Fin(i) == MkNum(i, 1, 0)

One == Fin(1)

IsFin(x) == x[1] = "fin"

IsZero(x) == x[1] = "fin" /\ x[2] = 0

\* -1, 0, 1: the sign of a finite or infinite lane
Sign(x) ==
    IF x[1] = "ninf" THEN -1
    ELSE IF x[1] = "pinf" THEN 1
    ELSE IF x[2] < 0 THEN -1 ELSE IF x[2] > 0 THEN 1 ELSE 0

\* the position of the leading bit of a finite non-zero dyadic lane
TopBit(x) == x[4] + BitLen(Abs(x[2])) - 1

NegVal(x) == IF x[1] = "fin" THEN <<"fin", -x[2], x[3], x[4]>>
           ELSE IF x[1] = "ninf" THEN PosInf
           ELSE IF x[1] = "pinf" THEN NegInf
           ELSE x

FNeg(x) == Strict1(NegVal, x)

MulVal(x, y) ==
    IF x[1] = "nan" \/ y[1] = "nan" THEN NaN
    ELSE IF x[1] = "inexact" \/ y[1] = "inexact" THEN Inexact
    ELSE IF x[1] = "fin" /\ y[1] = "fin"
    THEN IF x[2] = 0 \/ y[2] = 0 THEN Zero
         ELSE IF BitLen(Abs(x[2])) + BitLen(Abs(y[2])) > 30
                 \/ BitLen(x[3]) + BitLen(y[3]) > 30
         THEN Inexact
         ELSE MkNum(x[2] * y[2], x[3] * y[3], x[4] + y[4])
    ELSE IF IsZero(x) \/ IsZero(y) THEN NaN
    ELSE IF Sign(x) * Sign(y) < 0 THEN NegInf ELSE PosInf

FMul(x, y) == Strict2(MulVal, x, y)

\* x + y in a format with prec significand bits
AddVal(prec, x, y) ==
    IF x[1] = "nan" \/ y[1] = "nan" THEN NaN
    ELSE IF x[1] = "inexact" \/ y[1] = "inexact" THEN Inexact
    ELSE IF x[1] = "fin" /\ y[1] = "fin"
    THEN IF x[2] = 0 THEN y
         ELSE IF y[2] = 0 THEN x
         ELSE IF x[3] # 1 \/ y[3] # 1 THEN Inexact
         ELSE LET lo == IF x[4] < y[4] THEN x[4] ELSE y[4]
                  sx == x[4] - lo
                  sy == y[4] - lo
                  big == IF TopBit(x) >= TopBit(y) THEN x ELSE y
                  small == IF TopBit(x) >= TopBit(y) THEN y ELSE x
              IN IF BitLen(Abs(x[2])) + sx <= 30 /\ BitLen(Abs(y[2])) + sy <= 30
                 THEN Strict1(LAMBDA sum :
                                 IF BitLen(Abs(sum[2])) <= prec THEN sum ELSE Inexact,
                              MkNum(x[2] * Pow2(sx) + y[2] * Pow2(sy), 1, lo))
                 ELSE IF TopBit(small) <= TopBit(big) - prec - 2 THEN big
                 ELSE Inexact
    ELSE IF x[1] = "fin" THEN y
    ELSE IF y[1] = "fin" THEN x
    ELSE IF x[1] = y[1] THEN x ELSE NaN

FAdd(prec, x, y) == Strict2(LAMBDA a1, a2 : AddVal(prec, a1, a2), x, y)

FSub(prec, x, y) == FAdd(prec, x, FNeg(y))

\* x < y; false when either is a NaN
LtVal(x, y) ==
    IF x[1] \in {"nan", "inexact"} \/ y[1] \in {"nan", "inexact"} THEN FALSE
    ELSE IF x[1] = "fin" /\ y[1] = "fin" THEN Sign(AddVal(53, x, NegVal(y))) < 0
    ELSE IF x[1] = y[1] THEN FALSE
    ELSE x[1] = "ninf" \/ y[1] = "pinf"

FLt(x, y) == Strict2(LtVal, x, y)

FGt(x, y) == FLt(y, x)

\* x >= y; false when either is a NaN
GeVal(x, y) ==
    IF x[1] \in {"nan", "inexact"} \/ y[1] \in {"nan", "inexact"} THEN FALSE
    ELSE ~LtVal(x, y)

FGe(x, y) == Strict2(GeVal, x, y)

\* x == y; false when either is a NaN
EqVal(x, y) ==
    IF x[1] \in {"nan", "inexact"} \/ y[1] \in {"nan", "inexact"} THEN FALSE
    ELSE x = y

FEq(x, y) == Strict2(EqVal, x, y)

\* x != y; true when either is a NaN
FNe(x, y) == ~FEq(x, y)

\* 1.0 / x
RecipVal(x) ==
    IF x[1] \in {"nan", "inexact"} THEN x
    ELSE IF x[1] \in {"ninf", "pinf"} THEN Zero
    ELSE IF x[2] = 0 THEN PosInf
    ELSE MkNum(Sign(x) * x[3], Abs(x[2]), -x[4])

FRecip(x) == Strict1(RecipVal, x)

\* (int) x: truncation toward zero.  The conversion of a NaN or an infinity
\* is undefined in C; ub is the integer the build happens to produce.
CastVal(x, ub) ==
    IF x[1] # "fin" THEN ub
    ELSE IF x[2] = 0 THEN 0
    ELSE IF x[3] # 1 THEN ub
    ELSE IF x[4] >= 0
    THEN IF BitLen(Abs(x[2])) + x[4] <= 30 THEN x[2] * Pow2(x[4]) ELSE ub
    ELSE IF -x[4] > 30 THEN 0
    ELSE Sign(x) * (Abs(x[2]) \div Pow2(-x[4]))

CastInt(x, ub) == Strict1(LAMBDA a1 : CastVal(a1, ub), x)

(***************************************************************************)
(* The scalar exp of the kernel.                                           *)
(***************************************************************************)
\* significand bits of float / double
Prec(e) == IF e = "f64" THEN 53 ELSE 24

\* -87.3365f / -708.396, in units of ln 2
ClampVal(e) == IF e = "f64" THEN Fin(-1022) ELSE Fin(-126)

\* inv_ln2, ln2_hi and ln2_lo in units of ln 2
InvLn2 == One

Ln2Hi == One

Ln2Lo == Zero

Point5 == MkNum(1, 2, 0)

\* the Horner coefficients 1/720 (1/40320), ..., 1/2, 1, 1 as their denominators
PolyDens(e) == IF e = "f64" THEN <<40320, 5040, 720, 120, 24, 6, 2, 1, 1>>
               ELSE <<720, 120, 24, 6, 2, 1, 1>>

\* ap = c1; ap = c2 + ap * r; ... ; ap = 1 + ap * r
RECURSIVE Horner(_, _, _)
Horner(e, r, cnt) ==
    IF cnt = 1 THEN MkNum(1, PolyDens(e)[1], 0)
    ELSE FAdd(Prec(e), MkNum(1, PolyDens(e)[cnt], 0), FMul(Horner(e, r, cnt - 1), r))

\* the float whose bits are (ki + 127) << 23, the double (ki + 1023) << 52
ScaleVal(e, ki) ==
    LET field == ki + (IF e = "f64" THEN 1023 ELSE 127)
        top == IF e = "f64" THEN 2046 ELSE 254
    IN IF field = 0 THEN Zero
       ELSE IF field >= 1 /\ field <= top THEN MkNum(1, 1, ki)
       ELSE Inexact

\* if (sx < -87.3365f) sx = -87.3365f
ClampTo(e, x) ==
    Strict1(LAMBDA sx : IF FLt(sx, ClampVal(e)) THEN ClampVal(e) ELSE sx, x)

\* (int)(skf + (skf >= 0 ? 0.5f : -0.5f))
RoundCast(e, x, ub) ==
    Strict1(LAMBDA skf :
              CastInt(FAdd(Prec(e), skf,
                           IF FGe(skf, Zero) THEN Point5 ELSE FNeg(Point5)), ub),
            x)

\* the clamped, range-reduced polynomial exp of lines 157-173 and 191-208
ExpScalar(e, x, ub) ==
    Strict1(LAMBDA sx :
      Strict1(LAMBDA ski :
        Strict1(LAMBDA sr :
                  FMul(Horner(e, sr, Len(PolyDens(e))), ScaleVal(e, ski)),
                FSub(Prec(e), FSub(Prec(e), sx, FMul(Fin(ski), Ln2Hi)),
                     FMul(Fin(ski), Ln2Lo))),
        RoundCast(e, FMul(sx, InvLn2), ub)),
      ClampTo(e, x))

(***************************************************************************)
(* One KV tile: FMOPA, then the per-row online-softmax update.  und is     *)
(* what the step leaves undefined: und.g is the value a Kt lane read from  *)
(* beyond the end of kt holds, und.cast the integer a cast of a NaN gives; *)
(* with und.all every Kt lane of a padding column holds und.g.  The arrays *)
(* s_row and p_row are tuples: lane col is element col + 1.                *)
(***************************************************************************)
\* q_col[r]
QLane(dd, r) ==
    IF qi + r < seqLen THEN Fin(q[(qi + r) * headDim + dd]) ELSE Zero

\* lane col of svld1(kt + dd * kvLen + kj)
KtLane(dd, col, und) ==
    LET idx == dd * kvLen + kj + col
    IN IF kj + col >= kvLen /\ und.all THEN und.g
       ELSE IF idx < headDim * kvLen THEN Fin(kt[idx])
       ELSE und.g

\* ZA[r][col] after the svmopa of dd = 0 .. cnt-1
RECURSIVE ZaLane(_, _, _, _)
ZaLane(r, col, cnt, und) ==
    IF cnt = 0 THEN Zero
    ELSE FAdd(Prec(sdElem), ZaLane(r, col, cnt - 1, und),
              FMul(QLane(cnt - 1, r), KtLane(cnt - 1, col, und)))

\* the lanes lo .. hi-1 of f as a tuple
RECURSIVE Lanes(_, _, _)
Lanes(f, lo, hi) ==
    IF hi <= lo THEN <<>>
    ELSE IF hi = lo + 1 THEN <<f[lo]>>
    ELSE Lanes(f, lo, (lo + hi) \div 2) \o Lanes(f, (lo + hi) \div 2, hi)

\* s_row after the scale + mask loop
ScoreRow(row, und) ==
    Lanes([col \in Range0(TileW(sdElem)) |->
              IF kj + col >= kvLen THEN NegInf
              ELSE IF hasMask
              THEN FAdd(Prec(sdElem),
                        FMul(ZaLane(row, col, headDim, und), Fin(scale)),
                        mask[(qi + row) * kvLen + kj + col])
              ELSE FMul(ZaLane(row, col, headDim, und), Fin(scale))],
          0, TileW(sdElem))

\* A slip in the max loop: only column 0 of the tile is compared.
RowMax_FirstColumn(s, m0, cnt) == IF FGt(s[1], m0) THEN s[1] ELSE m0

\* row_max after columns 0 .. cnt-1
RECURSIVE RowMax(_, _, _)
RowMax(s, m0, cnt) ==
    IF cnt = 0 THEN m0
    ELSE Strict1(LAMBDA prev :
                   IF kj + (cnt - 1) >= kvLen THEN prev
                   ELSE IF FGt(s[cnt], prev) THEN s[cnt] ELSE prev,
                 RowMax(s, m0, cnt - 1))

\* alpha_scalar
Alpha(m_prev, m_new, und) ==
    IF FNe(m_prev, NegInf)
    THEN ExpScalar(sdElem, FSub(Prec(sdElem), m_prev, m_new), und.cast)
    ELSE One

\* p_row[col] of a padding column, line 188
PadWeight_One(col) == One

PadWeight(col) == Zero

\* p_row
WeightRow(s, m_new, und) ==
    Lanes([col \in Range0(TileW(sdElem)) |->
              IF kj + col >= kvLen THEN PadWeight(col)
              ELSE ExpScalar(sdElem, FSub(Prec(sdElem), s[col + 1], m_new), und.cast)],
          0, TileW(sdElem))

\* row_sum after columns 0 .. cnt-1
RECURSIVE RowSum(_, _)
RowSum(w, cnt) ==
    IF cnt = 0 THEN Zero
    ELSE IF kj + (cnt - 1) >= kvLen THEN RowSum(w, cnt - 1)
    ELSE FAdd(Prec(sdElem), RowSum(w, cnt - 1), w[cnt])

\* output[oOff + hp] after the accumulation of columns 0 .. cnt-1
RECURSIVE Accumulate(_, _, _, _)
Accumulate(o0, w, hp, cnt) ==
    IF cnt = 0 THEN o0
    ELSE IF kj + (cnt - 1) >= kvLen THEN Accumulate(o0, w, hp, cnt - 1)
    ELSE IF FEq(w[cnt], Zero) THEN Accumulate(o0, w, hp, cnt - 1)
    ELSE FAdd(Prec(sdElem), Accumulate(o0, w, hp, cnt - 1),
              FMul(w[cnt], Fin(v[(kj + cnt - 1) * headDim + hp])))

\* the body of the row loop, lines 126-224: the row's new running max, running
\* sum and output row, with its s_row and p_row
RowStep(row, und) ==
    Strict1(LAMBDA s_row :
      Strict1(LAMBDA m_new :
        Strict2(LAMBDA alpha, p_row :
                  [mx |-> m_new,
                   lx |-> FAdd(Prec(sdElem), FMul(alpha, l_arr[row]),
                               RowSum(p_row, TileW(sdElem))),
                   ox |-> Lanes([hp \in Range0(headDim) |->
                                   Accumulate(FMul(output[(qi + row) * headDim + hp], alpha),
                                              p_row, hp, TileW(sdElem))],
                                0, headDim),
                   sx |-> s_row,
                   px |-> p_row],
                Alpha(m_arr[row], m_new, und),
                WeightRow(s_row, m_new, und)),
        RowMax(s_row, m_arr[row], TileW(sdElem))),
      ScoreRow(row, und))

\* the KV-tile body, lines 104-224: the new m_arr, l_arr and output
KVTile(und) ==
    Strict1(LAMBDA rows :
              [mx |-> [row \in Range0(TileW(sdElem)) |-> rows[row + 1].mx],
               lx |-> [row \in Range0(TileW(sdElem)) |-> rows[row + 1].lx],
               ox |-> [x \in DOMAIN output |->
                         IF x \div headDim >= qi /\ x \div headDim < qi + TileW(sdElem)
                            /\ x \div headDim < seqLen
                         THEN rows[x \div headDim - qi + 1].ox[(x % headDim) + 1]
                         ELSE output[x]]],
            Lanes([row \in Range0(TileW(sdElem)) |->
                      IF qi + row < seqLen THEN RowStep(row, und)
                      ELSE [mx |-> m_arr[row], lx |-> l_arr[row], ox |-> <<>>,
                            sx |-> <<>>, px |-> <<>>]],
                  0, TileW(sdElem)))

(***************************************************************************)
(* Inputs.                                                                 *)
(***************************************************************************)
MaxSeqTiles == 1    \* seqLen is up to MaxSeqTiles whole tiles ...
MaxSeqRem == 1      \* ... plus 0 .. MaxSeqRem rows
MaxKvTiles == 1     \* kvLen is up to MaxKvTiles whole tiles ...
MaxKvRem == 1       \* ... plus 0 .. MaxKvRem columns
MaxHeadDim == 2     \* headDim is -1 .. MaxHeadDim
MaxSdSeed == 1      \* operand families 0 .. MaxSdSeed

\* What the caller's output buffer holds before the call.
Stale == Fin(Poison)

QVal(seed, x) == ((x * 7 + seed) % 3) - 1

KtVal(seed, x) == ((x * 5 + seed + 1) % 3) - 1

VVal(seed, x) == ((x * 3 + seed) % 5) - 2

MaskKinds == {"none", "finite", "causal", "last", "rows", "rise"}

\* mask[r][col] of each kind: small finite biases; -inf above the diagonal;
\* -inf everywhere but the last column; -inf in every odd row; a bias against
\* every column but the last.
MaskVal(kind, r, col, kv) ==
    IF kind = "finite" THEN Fin(-((r + col) % 2))
    ELSE IF kind = "causal" THEN (IF col > r THEN NegInf ELSE Zero)
    ELSE IF kind = "last" THEN (IF col = kv - 1 THEN Zero ELSE NegInf)
    ELSE IF kind = "rise" THEN (IF col = kv - 1 THEN Zero ELSE Fin(-5))
    ELSE IF r % 2 = 1 THEN NegInf ELSE Fin(-(col % 2))

Pos(x) == IF x > 0 THEN x ELSE 0

\* the rows of the output buffer of the model: whole tiles, at least one row
BufRows(e, sl) ==
    IF sl <= 0 THEN 1 ELSE ((sl + TileW(e) - 1) \div TileW(e)) * TileW(e)

SdInit ==
    /\ sdElem \in {"f32", "f64"}
    /\ seqLen \in {-1} \cup {st * TileW(sdElem) + sr :
                               st \in 0 .. MaxSeqTiles, sr \in 0 .. MaxSeqRem}
    /\ kvLen \in {-1} \cup {kt0 * TileW(sdElem) + kr :
                              kt0 \in 0 .. MaxKvTiles, kr \in 0 .. MaxKvRem}
    /\ headDim \in -1 .. MaxHeadDim
    /\ \E seed \in 0 .. MaxSdSeed, kind \in MaskKinds :
          /\ scale = 1 + seed
          /\ hasMask = (kind # "none")
          /\ q = [x \in Range0(Pos(seqLen) * Pos(headDim)) |-> QVal(seed, x)]
          /\ kt = [x \in Range0(Pos(headDim) * Pos(kvLen)) |-> KtVal(seed, x)]
          /\ v = [x \in Range0(Pos(kvLen) * Pos(headDim)) |-> VVal(seed, x)]
          /\ mask = IF kind = "none" THEN <<>>
                    ELSE [x \in Range0(Pos(seqLen) * Pos(kvLen)) |->
                            MaskVal(kind, x \div kvLen, x % kvLen, kvLen)]
    /\ output = [x \in Range0(BufRows(sdElem, seqLen) * (IF headDim > 0 THEN headDim ELSE 1))
                   |-> Stale]
    /\ m_arr = <<>> /\ l_arr = <<>>
    /\ qi = 0 /\ kj = 0
    /\ sdPc = "entry"
    /\ sdReads = {}

(***************************************************************************)
(* The steps of the kernel.                                                *)
(***************************************************************************)
\* lines 63-65
EarlyReturn_NoKvCheck(sl, kv, hd) == sl <= 0 \/ hd <= 0

EarlyReturn(sl, kv, hd) == sl <= 0 \/ kv <= 0 \/ hd <= 0

\* lines 58-65 and the first test of the row-tile loop
SdEntry ==
    /\ sdPc = "entry"
    /\ sdPc' = IF EarlyReturn(seqLen, kvLen, headDim) THEN "done"
               ELSE IF 0 < seqLen THEN "rowtile" ELSE "done"
    /\ qi' = 0
    /\ UNCHANGED <<sdElem, seqLen, kvLen, headDim, scale, hasMask, q, kt, v, mask,
                   output, m_arr, l_arr, kj, sdReads>>
    /\ UNCHANGED <<mmVars, cvVars, exVars>>

\* what the zeroing loop of lines 90-94 stores
ZeroedLane_Stale(old) == old

ZeroedLane(old) == Zero

\* lines 76-97: m_arr, l_arr and the tile's output rows are reset
SdRowTile ==
    /\ sdPc = "rowtile"
    /\ m_arr' = [r \in Range0(TileW(sdElem)) |-> NegInf]
    /\ l_arr' = [r \in Range0(TileW(sdElem)) |-> Zero]
    /\ output' = [x \in DOMAIN output |->
                    LET r == x \div headDim
                    IN IF r >= qi /\ r < qi + TileW(sdElem) /\ r < seqLen
                       THEN ZeroedLane(output[x]) ELSE output[x]]
    /\ kj' = 0
    /\ sdPc' = IF 0 < kvLen THEN "kvtile" ELSE "normalize"
    /\ UNCHANGED <<sdElem, seqLen, kvLen, headDim, scale, hasMask, q, kt, v, mask,
                   qi, sdReads>>
    /\ UNCHANGED <<mmVars, cvVars, exVars>>

\* what a load beyond the end of kt may hold, and what (int) NaN may give
Garbage == {Fin(Poison), NaN}

UbCasts == {0, 1}

Undefined == {[g |-> gv, cast |-> cv, all |-> FALSE] : gv \in Garbage, cv \in UbCasts}

\* A slip in the accumulator's ownership: the svzero_za of line 104 clears the
\* ZA tile of a matmul call that runs on another thread.
SdKVTile_SharedZA ==
    /\ sdPc = "kvtile"
    /\ \E und \in Undefined : \E res \in {KVTile(und)} :
          /\ m_arr' = res.mx
          /\ l_arr' = res.lx
          /\ output' = res.ox
    /\ kj' = kj + TileW(sdElem)
    /\ sdPc' = IF kj + TileW(sdElem) < kvLen THEN "kvtile" ELSE "normalize"
    /\ sdReads' = sdReads \cup (IF headDim > 0 THEN {"q", "kt", "v"} ELSE {})
                          \cup (IF hasMask THEN {"mask"} ELSE {})
    /\ za' = [x \in DOMAIN za |-> 0]
    /\ UNCHANGED <<sdElem, seqLen, kvLen, headDim, scale, hasMask, q, kt, v, mask, qi>>
    /\ UNCHANGED <<kern, elem, m, n, k, blk, at, b, c, i0, j0, ti, tj, kk, pc,
                   zaTerms, cTerms>>
    /\ UNCHANGED <<cvVars, exVars>>

\* lines 98-224: one KV tile
SdKVTile ==
    /\ sdPc = "kvtile"
    /\ \E und \in Undefined : \E res \in {KVTile(und)} :
          /\ m_arr' = res.mx
          /\ l_arr' = res.lx
          /\ output' = res.ox
    /\ kj' = kj + TileW(sdElem)
    /\ sdPc' = IF kj + TileW(sdElem) < kvLen THEN "kvtile" ELSE "normalize"
    /\ sdReads' = sdReads \cup (IF headDim > 0 THEN {"q", "kt", "v"} ELSE {})
                          \cup (IF hasMask THEN {"mask"} ELSE {})
    /\ UNCHANGED <<sdElem, seqLen, kvLen, headDim, scale, hasMask, q, kt, v, mask, qi>>
    /\ UNCHANGED <<mmVars, cvVars, exVars>>

\* lines 227-236: O /= l, and the step of the row-tile loop
SdNormalize ==
    /\ sdPc = "normalize"
    /\ output' = [x \in DOMAIN output |->
                    LET r == x \div headDim
                    IN IF r >= qi /\ r < qi + TileW(sdElem) /\ r < seqLen
                       THEN IF FEq(l_arr[r - qi], Zero) THEN output[x]
                            ELSE FMul(output[x], FRecip(l_arr[r - qi]))
                       ELSE output[x]]
    /\ qi' = qi + TileW(sdElem)
    /\ sdPc' = IF qi + TileW(sdElem) < seqLen THEN "rowtile" ELSE "done"
    /\ UNCHANGED <<sdElem, seqLen, kvLen, headDim, scale, hasMask, q, kt, v, mask,
                   m_arr, l_arr, kj, sdReads>>
    /\ UNCHANGED <<mmVars, cvVars, exVars>>

SdNext == SdEntry \/ SdRowTile \/ SdKVTile \/ SdNormalize

InitSdpa == MMIdle /\ CvIdle /\ SdInit /\ ExIdle

SpecSdpa == InitSdpa /\ [][SdNext]_vars

(***************************************************************************)
(* The reference attention, in integers: the softmax weights of a row,     *)
(* scaled by a common power of two; a column masked with -inf has weight 0.*)
(***************************************************************************)
Visible(r, col) == ~hasMask \/ mask[r * kvLen + col][1] = "fin"

MaskInt(r, col) ==
    IF hasMask THEN mask[r * kvLen + col][2] * Pow2(mask[r * kvLen + col][4]) ELSE 0

RECURSIVE RefDot(_, _, _)
RefDot(r, col, cnt) ==
    IF cnt = 0 THEN 0
    ELSE RefDot(r, col, cnt - 1)
            + q[r * headDim + cnt - 1] * kt[(cnt - 1) * kvLen + col]

RefScore(r, col) == scale * RefDot(r, col, headDim) + MaskInt(r, col)

RefMin(r) ==
    LET scores == {RefScore(r, col) : col \in {x \in Range0(kvLen) : Visible(r, x)}}
    IN CHOOSE x \in scores : \A y \in scores : x <= y

RefWeight(r, col) ==
    IF Visible(r, col) THEN Pow2(RefScore(r, col) - RefMin(r)) ELSE 0

RECURSIVE RefDen(_, _)
RefDen(r, cnt) ==
    IF cnt = 0 THEN 0 ELSE RefDen(r, cnt - 1) + RefWeight(r, cnt - 1)

RECURSIVE RefNum(_, _, _)
RefNum(r, hp, cnt) ==
    IF cnt = 0 THEN 0
    ELSE RefNum(r, hp, cnt - 1) + RefWeight(r, cnt - 1) * v[(cnt - 1) * headDim + hp]

\* x is num / den, or num is 0 and x is below 2^-100
Close(x, num, den) ==
    \/ x = MkNum(num, den, 0)
    \/ num = 0 /\ IsFin(x) /\ x[4] + BitLen(Abs(x[2])) - BitLen(x[3]) < -100

\* C2: for seqLen, kvLen, headDim > 0, with or without a mask, every output
\* row with at least one column not masked out holds the softmax-weighted
\* sum of the V rows, as the direct reference computes it.
C2_SdpaEqualsReference ==
    (sdPc = "done" /\ seqLen > 0 /\ kvLen > 0 /\ headDim > 0) =>
        \A r \in Range0(seqLen) :
            (\E col \in Range0(kvLen) : Visible(r, col)) =>
                \A hp \in Range0(headDim) :
                    Close(output[r * headDim + hp], RefNum(r, hp, kvLen), RefDen(r, kvLen))

\* C3: a row whose every score is -inf (a mask row of -inf throughout) gets
\* all zeros in its output row, not NaN.
C3_FullyMaskedRowIsZero ==
    (sdPc = "done" /\ seqLen > 0 /\ kvLen > 0 /\ headDim > 0) =>
        \A r \in Range0(seqLen) :
            (\A col \in Range0(kvLen) : ~Visible(r, col)) =>
                \A hp \in Range0(headDim) : output[r * headDim + hp] = Zero

\* Kt lanes of the padding columns holding something else than memory does.
PadLanes == {[g |-> gv, cast |-> 0, all |-> TRUE] : gv \in Garbage}

\* C8: when seqLen or kvLen is not a multiple of the tile width, the positions
\* out of range contribute nothing.  A row r >= seqLen of the output buffer is
\* never written and its Q column entries are 0.  In a partial KV tile every
\* column >= kvLen gets the score -inf and the weight exactly 0, the new
\* running max is the old one or the score of a column in range, and the new
\* running max, running sum and output rows are the same whatever the Kt load
\* picked up in the padding lanes.
C8_PaddingContributesNothing ==
    /\ (seqLen > 0 /\ headDim > 0) =>
          \A x \in DOMAIN output : x \div headDim >= seqLen => output[x] = Stale
    /\ sdPc = "kvtile" =>
          \A dd \in Range0(headDim) : \A r \in Range0(TileW(sdElem)) :
              qi + r >= seqLen => QLane(dd, r) = Zero
    /\ (sdPc = "kvtile" /\ kj + TileW(sdElem) > kvLen) =>
          /\ \A und \in PadLanes :
                KVTile(und) = KVTile([g |-> Fin(Poison), cast |-> 0, all |-> FALSE])
          /\ \A und \in PadLanes : \A row \in Range0(TileW(sdElem)) :
                qi + row < seqLen =>
                    LET rs == RowStep(row, und)
                    IN /\ \A col \in Range0(TileW(sdElem)) :
                             kj + col >= kvLen =>
                                 rs.sx[col + 1] = NegInf /\ rs.px[col + 1] = Zero
                       /\ \/ rs.mx = m_arr[row]
                          \/ \E col \in Range0(TileW(sdElem)) :
                                 kj + col < kvLen /\ rs.mx = rs.sx[col + 1]

C8_Witness ==
    /\ sdPc = "done"
    /\ seqLen > TileW(sdElem) /\ seqLen % TileW(sdElem) # 0
    /\ kvLen > TileW(sdElem) /\ kvLen % TileW(sdElem) # 0
    /\ headDim > 1
    /\ \E x \in DOMAIN output : x \div headDim < seqLen /\ output[x] # Stale
    /\ \E x \in DOMAIN output : x \div headDim >= seqLen

\* C9: when seqLen, kvLen or headDim is <= 0 the kernel returns at once: it
\* never leaves its entry for a tile, no element of output is written and no
\* element of q, kt, v or mask is read.
C9_EarlyReturnTouchesNothing ==
    (sdPc # "idle" /\ (seqLen <= 0 \/ kvLen <= 0 \/ headDim <= 0)) =>
        /\ sdPc \in {"entry", "done"}
        /\ \A x \in DOMAIN output : output[x] = Stale
        /\ sdReads = {}

C9_Witness ==
    /\ sdPc = "done"
    /\ kvLen <= 0 /\ seqLen > TileW(sdElem) /\ headDim > 0
    /\ DOMAIN output # {}

\* C10: with kvLen = 1 and no mask (all scores of the model are finite) the
\* softmax weight of the single key is exactly 1 and every output row is the
\* single V row, element for element.
C10_SingleKeyCopiesV ==
    (sdPc = "done" /\ seqLen > 0 /\ headDim > 0 /\ kvLen = 1 /\ ~hasMask) =>
        \A r \in Range0(seqLen) : \A hp \in Range0(headDim) :
            output[r * headDim + hp] = Fin(v[hp])

C10_Witness ==
    /\ sdPc = "done"
    /\ kvLen = 1 /\ ~hasMask
    /\ seqLen > TileW(sdElem) /\ headDim = 2
    /\ v[0] # v[1] /\ v[0] # 0
    /\ output[(seqLen - 1) * headDim] = Fin(v[0])

(***************************************************************************)
(* Part 5: two kernel calls on two threads.  One thread runs               *)
(*         blockedmatmul_fmopa_at_f32, the other sdpa_fmopa_f32; each has  *)
(*         its own ZA tile, its own locals and its own output buffer (c    *)
(*         and output), and the steps of the two calls interleave in every *)
(*         order.  No kernel has a static or global variable that it       *)
(*         writes.                                                         *)
(***************************************************************************)
MaxParTiles == 2    \* M is 1 .. MaxParTiles tiles (N is one tile); seqLen = kvLen
                    \* is one more than 0 .. MaxParTiles - 1 tiles
MaxParK == 2        \* K and headDim are 1 .. MaxParK

ParInit ==
    /\ kern = "blocked" /\ elem = "f32"
    /\ \E mt \in 1 .. MaxParTiles :
          /\ m = mt * TileF32
          /\ n = TileF32
          /\ k \in 1 .. MaxParK
          /\ at = [x \in Range0(k * m) |-> ValA(1, x)]
          /\ b = [x \in Range0(k * n) |-> ValB(1, x)]
    /\ blk = TileF32
    /\ c = [x \in Range0(m * n) |-> Poison]
    /\ za = [x \in Range0(TileF32 * TileF32) |-> Poison]
    /\ i0 = 0 /\ j0 = 0 /\ ti = 0 /\ tj = 0 /\ kk = 0
    /\ pc = "zero"
    /\ zaTerms = <<>>
    /\ cTerms = <<>>
    /\ sdElem = "f32"
    /\ seqLen \in {st * TileF32 + 1 : st \in 0 .. MaxParTiles - 1}
    /\ kvLen = seqLen
    /\ headDim \in 1 .. MaxParK
    /\ \E kind \in {"none", "finite"} :
          /\ scale = 1
          /\ hasMask = (kind # "none")
          /\ q = [x \in Range0(seqLen * headDim) |-> QVal(0, x)]
          /\ kt = [x \in Range0(headDim * kvLen) |-> KtVal(0, x)]
          /\ v = [x \in Range0(kvLen * headDim) |-> VVal(0, x)]
          /\ mask = IF kind = "none" THEN <<>>
                    ELSE [x \in Range0(seqLen * kvLen) |->
                            MaskVal(kind, x \div kvLen, x % kvLen, kvLen)]
    /\ output = [x \in Range0(BufRows(sdElem, seqLen) * headDim) |-> Stale]
    /\ m_arr = <<>> /\ l_arr = <<>>
    /\ qi = 0 /\ kj = 0
    /\ sdPc = "entry"
    /\ sdReads = {}

InitPar == ParInit /\ CvIdle /\ ExIdle

\* a step of either call
ParNext ==
    \/ BlockedZero
    \/ BlockedMopa
    \/ BlockedStore
    \/ SdEntry
    \/ SdRowTile
    \/ SdKVTile
    \/ SdNormalize

SpecPar == InitPar /\ [][ParNext]_vars

\* What the two calls return when each runs alone, as functions of their
\* arguments: the tiles of C stored so far hold the products of the reference,
\* and the rows of the row tiles finished so far hold the reference attention.
ParOutputsAsAlone ==
    /\ \A x \in DOMAIN cTerms :
          \A r \in Range0(TileF32) : \A l \in Range0(TileF32) :
              c[(cTerms[x][1] + r) * n + cTerms[x][2] + l]
                  = DotRef(at, b, m, n, cTerms[x][1] + r, cTerms[x][2] + l, k)
    /\ pc = "done" => Len(cTerms) = (m \div TileF32) * (n \div TileF32)
    /\ \A r \in Range0(seqLen) : \A hp \in Range0(headDim) :
          (r < qi \/ sdPc = "done") =>
              output[r * headDim + hp] = MkNum(RefNum(r, hp, kvLen), RefDen(r, kvLen), 0)

MaxStTiles == 2     \* M is 1 .. MaxStTiles tiles; a strip is one tile wide
MaxStK == 2         \* K is 0 .. MaxStK
MaxStSeed == 1      \* the first strip's operand family is 0 .. MaxStSeed
MaxStPad == 3       \* columns left of the first strip and right of the last

\* c + (ti + row) * ldc + coff + tj of the 16 rows, narrowed
StoreTileStrided_NoOffset(fmt, tw, cc, z, ld, off, tix, tjx) ==
    StoreTileHalf(fmt, tw, cc, z, ld, tix, tjx)

StoreTileStrided(fmt, tw, cc, z, ld, off, tix, tjx) ==
    [idx \in DOMAIN cc |->
        LET d    == idx - (tix * ld + off + tjx)
            row  == d \div ld
            lane == d % ld
        IN  IF d >= 0 /\ row < tw /\ lane < tw
            THEN Narrow(fmt, z[row * tw + lane])
            ELSE cc[idx]]

\* B of the strip a call is given
StripB(fmt, seed, kEnd, nn) == [x \in Range0(kEnd * nn) |-> HalfB(fmt, seed, x)]

\* (ldc, coff) pairs with ldc >= coff + n for one strip or two
StLayouts(nn) ==
    {<<nn, 0>>, <<2 * nn, 0>>, <<2 * nn, nn>>,
     <<2 * nn + 2 * MaxStPad, MaxStPad>>, <<nn + MaxStPad, MaxStPad>>}

StInit ==
    /\ kern = "strided"
    /\ elem \in {"f16", "bf16"}
    /\ \E mt \in 1 .. MaxStTiles, lay \in StLayouts(TileF32) :
          /\ m = mt * TileF32
          /\ n = TileF32
          /\ k \in 0 .. MaxStK
          /\ stSeed \in 0 .. MaxStSeed
          /\ ldc = lay[1]
          /\ coff = lay[2]
          /\ at = [x \in Range0(k * m) |-> HalfA(elem, stSeed, x)]
          /\ b = StripB(elem, stSeed, k, n)
          /\ c = [x \in Range0(m * ldc) |-> Poison]
    /\ stCalls = <<<<coff, stSeed>>>>
    /\ blk = 0
    /\ za = [x \in Range0(TileF32 * TileF32) |-> <<Poison, Poison>>]
    /\ i0 = 0 /\ j0 = 0 /\ ti = 0 /\ tj = 0 /\ kk = 0
    /\ pc = "zero"
    /\ zaTerms = <<>>
    /\ cTerms = <<>>

StridedZero ==
    /\ kern = "strided" /\ pc = "zero"
    /\ za' = ZeroTileBits(TileF32)
    /\ kk' = 0
    /\ zaTerms' = <<>>
    /\ pc' = "kloop"
    /\ UNCHANGED <<kern, elem, m, n, k, blk, at, b, c, i0, j0, ti, tj, cTerms>>
    /\ UNCHANGED <<cvVars, sdVars, exVars>>

StridedMopa ==
    /\ kern = "strided" /\ pc = "kloop" /\ kk < k
    /\ za' = MopaTileHalf(elem, TileF32, za, at, b, m, n, kk, ti, tj)
    /\ zaTerms' = Append(zaTerms, kk)
    /\ kk' = kk + 1
    /\ UNCHANGED <<kern, elem, m, n, k, blk, at, b, c, i0, j0, ti, tj, pc, cTerms>>
    /\ UNCHANGED <<cvVars, sdVars, exVars>>

StridedStore ==
    /\ kern = "strided" /\ pc = "kloop" /\ ~(kk < k)
    /\ c' = StoreTileStrided(elem, TileF32, c, za, ldc, coff, ti, tj)
    /\ cTerms' = Append(cTerms, <<ti, tj, zaTerms>>)
    /\ LET nx == PlainAdvance(TileF32, m, n, ti, tj)
       IN  /\ ti' = nx.ti /\ tj' = nx.tj
           /\ pc' = IF nx.done THEN "done" ELSE "zero"
    /\ UNCHANGED <<kern, elem, m, n, k, blk, at, b, za, kk, i0, j0, zaTerms>>
    /\ UNCHANGED <<cvVars, sdVars, exVars>>

\* The caller's next call: the strip to the right, with the next B.
StridedNextStrip ==
    /\ kern = "strided" /\ pc = "done"
    /\ ldc >= coff + n + n
    /\ coff' = coff + n
    /\ stSeed' = stSeed + 1
    /\ b' = StripB(elem, stSeed + 1, k, n)
    /\ stCalls' = Append(stCalls, <<coff + n, stSeed + 1>>)
    /\ ti' = 0 /\ tj' = 0 /\ kk' = 0
    /\ pc' = "zero"
    /\ zaTerms' = <<>>
    /\ cTerms' = <<>>
    /\ UNCHANGED <<kern, elem, m, n, k, blk, at, c, za, i0, j0, ldc>>
    /\ UNCHANGED notSt

StNext == StridedZero \/ StridedMopa \/ StridedStore \/ StridedNextStrip

InitStrided == StInit /\ CvIdle /\ SdIdle /\ FuIdle /\ RdIdle /\ VaIdle /\ LxIdle

SpecStrided == InitStrided /\ [][StNext]_vars

\* The non-strided kernel of part 3 as a function of its arguments: the k
\* loop of one tile, then the tile loop, on an m x n output.
RECURSIVE HalfAcc(_, _, _, _, _, _, _, _, _)
HalfAcc(fmt, z, A, B, mm, nn, kEnd, tix, tjx) ==
    IF kEnd = 0 THEN z
    ELSE Strict1(LAMBDA z1 : MopaTileHalf(fmt, TileF32, z1, A, B, mm, nn, kEnd - 1, tix, tjx),
                 HalfAcc(fmt, z, A, B, mm, nn, kEnd - 1, tix, tjx))

RECURSIVE HalfRun(_, _, _, _, _, _, _, _, _)
HalfRun(fmt, cc, A, B, mm, nn, kEnd, tix, tjx) ==
    Strict1(LAMBDA c1 :
                LET nx == PlainAdvance(TileF32, mm, nn, tix, tjx)
                IN  IF nx.done THEN c1
                    ELSE HalfRun(fmt, c1, A, B, mm, nn, kEnd, nx.ti, nx.tj),
            StoreTileHalf(fmt, TileF32, cc,
                          HalfAcc(fmt, ZeroTileBits(TileF32), A, B, mm, nn, kEnd, tix, tjx),
                          nn, tix, tjx))

HalfC(fmt, A, B, mm, nn, kEnd) ==
    HalfRun(fmt, [x \in Range0(mm * nn) |-> Poison], A, B, mm, nn, kEnd, 0, 0)

\* the strips written by the calls made so far, the running one included
StripOf(col) == {x \in DOMAIN stCalls : stCalls[x][1] <= col /\ col < stCalls[x][1] + n}

\* the buffer the calls so far must leave: every strip holds what the
\* non-strided kernel writes for its B, every other element is untouched
StridedExpected(refs) ==
    [idx \in DOMAIN c |->
        LET col == idx % ldc
            row == idx \div ldc
        IN  IF StripOf(col) = {} THEN Poison
            ELSE LET x == CHOOSE y \in StripOf(col) : TRUE
                 IN  refs[x][row * n + (col - stCalls[x][1])]]

StridedRefs ==
    [x \in DOMAIN stCalls |-> HalfC(elem, at, StripB(elem, stCalls[x][2], k, n), m, n, k)]

\* only elements of the running call's strip, in rows below m, change
StridedFrameStep ==
    \A idx \in DOMAIN c :
        c'[idx] # c[idx] =>
            /\ idx \in DOMAIN c'
            /\ idx \div ldc < m
            /\ coff <= idx % ldc /\ idx % ldc < coff + n

\* C13: a strided call with ldc >= coff + n writes exactly c[r*ldc + coff + j],
\* r < m, j < n, with the non-strided kernel's value for c[r*n + j], and leaves
\* the rest of the buffer as it was; with ldc = n and coff = 0 the buffer is
\* the non-strided kernel's output; the calls for successive disjoint strips
\* leave every strip holding its own call's values.
C13_StridedWritesItsStrip ==
    /\ [](kern = "strided" /\ pc = "done" =>
             Strict1(LAMBDA refs :
                         /\ c = StridedExpected(refs)
                         /\ (ldc = n /\ coff = 0) => c = refs[1],
                     StridedRefs))
    /\ [][StridedFrameStep]_vars

C13_Witness ==
    /\ kern = "strided" /\ pc = "done"
    /\ Len(stCalls) = 2 /\ k > 0 /\ m > TileF32
    /\ ldc > 2 * n /\ stCalls[1][1] > 0
    /\ \E x \in DOMAIN c : \E y \in DOMAIN c :
          /\ x % ldc < stCalls[2][1] /\ y % ldc >= stCalls[2][1]
          /\ c[x] # Poison /\ c[y] # Poison /\ c[x] # c[y]
    /\ \E x \in DOMAIN c : x % ldc >= coff + n /\ c[x] = Poison

(***************************************************************************)
(* Part 7.  The fused dequantizing kernels fused_int8_matmul_neon,         *)
(* fused_nf4_gelu_matmul_neon and fused_int4_gelu_matmul_neon.  The three  *)
(* share one loop nest: rows, columns four at a time, k.  A lane of the    *)
(* accumulator is kept as the sequence of its terms, a term naming the     *)
(* weight element and the scale slot it was made of, so that the elements  *)
(* a lane was computed from can be read off the output.                    *)
(***************************************************************************)
MaxFuM == 2       \* M is 1 .. MaxFuM
MaxFuK == 2       \* K is 1 .. MaxFuK
MaxFuN == 9       \* N is 1 .. MaxFuN
MaxFuGroup == 5   \* groupSize is 1 .. MaxFuGroup

FuLanes == 4      \* the float32x4_t width: for (n = 0; n < N; n += 4)

\* (n + i) / groupSize
FuGroupOf_Lane0(col, gs) == (col - (col % FuLanes)) \div gs

FuGroupOf(col, gs) == col \div gs

\* the element of the (unpacked) weight matrix that lane i is made of.
\* int8: weights[k * N + n + i].  nf4 and int4: the low nibble (lanes 0, 2)
\* and the high nibble (lanes 1, 3) of packed[(k * N + n) / 2] and of
\* packed[(k * N + n + 2) / 2]; nibble h of byte y holds element 2 * y + h.
FuWeightElem(kind, kx, col, lane) ==
    IF kind = "int8"
    THEN kx * N + col + lane
    ELSE LET weightIdx == kx * N + col + (IF lane < 2 THEN 0 ELSE 2)
             packedIdx == weightIdx \div 2
         IN  2 * packedIdx + (lane % 2)

\* what one iteration of the k loop reads for its four lanes
FuStepReads(kind, kx, col) ==
    {[lane |-> l,
      kx   |-> kx,
      col  |-> col + l,
      w    |-> FuWeightElem(kind, kx, col, l),
      g    |-> FuGroupOf(col + l, groupSize),
      s    |-> kx * numGroups + FuGroupOf(col + l, groupSize)] : l \in Range0(FuLanes)}

\* a read beyond the end of the weights or of the scales
FuReadsBeyond(kind, reads) ==
    \E r \in reads :
        \/ r.s >= K * numGroups
        \/ kind = "int8" /\ r.w >= K * N
        \/ kind # "int8" /\ r.w \div 2 >= (K * N + 1) \div 2

\* the activation applied to the accumulator before the store
FuAct(kind) == IF kind = "int8" THEN "none" ELSE "gelu"

\* the dequantization of a weight element
FuDeq(kind) ==
    CASE kind = "int8" -> "int8_to_float"
      [] kind = "nf4"  -> "nf4_table"
      [] OTHER         -> "minus_8"

FuInit ==
    /\ fuKern \in {"int8", "nf4", "int4"}
    /\ M \in 1 .. MaxFuM
    /\ K \in 1 .. MaxFuK
    /\ N \in 1 .. MaxFuN
    /\ groupSize \in 1 .. MaxFuGroup
    /\ numGroups = (N + groupSize - 1) \div groupSize
    /\ fuRow = 0 /\ fuCol = 0 /\ fuK = 0
    /\ fuPc = "acc"
    /\ fuAcc = <<>>
    /\ fuReads = {}
    /\ fuOut = [x \in Range0(M * N) |-> [act |-> "stale", deq |-> "stale", terms |-> <<>>]]
    /\ fuStores = {}

\* float32x4_t acc = vdupq_n_f32(0.0f)
FuZeroAcc ==
    /\ fuPc = "acc"
    /\ fuAcc' = [l \in 1 .. FuLanes |-> <<>>]
    /\ fuK' = 0
    /\ fuPc' = "kloop"
    /\ UNCHANGED <<fuKern, M, K, N, groupSize, numGroups, fuRow, fuCol, fuReads,
                   fuOut, fuStores>>
    /\ UNCHANGED notFu

\* one iteration of the k loop: four weights, four scales, vfmaq_f32.
\* A read beyond a buffer may fault.
FuAccumulate ==
    /\ fuPc = "kloop" /\ fuK < K
    /\ LET reads == FuStepReads(fuKern, fuK, fuCol)
       IN  /\ fuReads' = reads
           /\ fuAcc' = [l \in 1 .. FuLanes |->
                          LET r == CHOOSE x \in reads : x.lane = l - 1
                          IN  Append(fuAcc[l], [kx |-> fuK, w |-> r.w, s |-> r.s])]
           /\ \/ fuPc' = "kloop"
              \/ FuReadsBeyond(fuKern, reads) /\ fuPc' = "fault"
    /\ fuK' = fuK + 1
    /\ UNCHANGED <<fuKern, M, K, N, groupSize, numGroups, fuRow, fuCol, fuOut, fuStores>>
    /\ UNCHANGED notFu

\* the activation, vst1q_f32(outputRow + n, ...), and the loop increments.
\* A store beyond the end of output may fault.
FuStore ==
    /\ fuPc = "kloop" /\ ~(fuK < K)
    /\ LET base == fuRow * N + fuCol
       IN  /\ fuOut' = [x \in DOMAIN fuOut |->
                          IF x >= base /\ x < base + FuLanes
                          THEN [act |-> FuAct(fuKern), deq |-> FuDeq(fuKern),
                                terms |-> fuAcc[x - base + 1]]
                          ELSE fuOut[x]]
           /\ fuStores' = {<<fuRow, fuCol + l>> : l \in Range0(FuLanes)}
           /\ \/ /\ fuCol + FuLanes < N
                 /\ fuCol' = fuCol + FuLanes /\ fuRow' = fuRow /\ fuPc' = "acc"
              \/ /\ ~(fuCol + FuLanes < N) /\ fuRow + 1 < M
                 /\ fuCol' = 0 /\ fuRow' = fuRow + 1 /\ fuPc' = "acc"
              \/ /\ ~(fuCol + FuLanes < N) /\ ~(fuRow + 1 < M)
                 /\ fuCol' = fuCol /\ fuRow' = fuRow /\ fuPc' = "done"
              \/ /\ base + FuLanes > M * N
                 /\ fuCol' = fuCol /\ fuRow' = fuRow /\ fuPc' = "fault"
    /\ UNCHANGED <<fuKern, M, K, N, groupSize, numGroups, fuK, fuAcc, fuReads>>
    /\ UNCHANGED notFu

FuNext == FuZeroAcc \/ FuAccumulate \/ FuStore

InitFused == MMIdle /\ CvIdle /\ SdIdle /\ StIdle /\ FuInit /\ RdIdle /\ VaIdle /\ LxIdle

SpecFused == InitFused /\ [][FuNext]_vars

\* the terms of output[row, col] = sum over k of input[row, k] *
\* dequant(weights[k, col]) * scales[k, col / groupSize]
FuRefTerms(col) ==
    [x \in 1 .. K |-> [kx |-> x - 1,
                       w  |-> (x - 1) * N + col,
                       s  |-> (x - 1) * numGroups + col \div groupSize]]

\* every column touched is a column of the matrix, every scale read is the
\* scale of the column's own group in row k, every weight read is the
\* column's own, and the finished output is the dequantized product
FuIndexSafe ==
    /\ fuPc # "fault"
    /\ \A r \in fuReads :
          /\ r.col < N
          /\ r.g = r.col \div groupSize /\ r.g < numGroups
          /\ r.s = r.kx * numGroups + r.g
          /\ r.w = r.kx * N + r.col
    /\ \A st \in fuStores : st[2] < N
    /\ fuPc = "done" =>
          \A x \in DOMAIN fuOut : fuOut[x].terms = FuRefTerms(x % N)

\* C14: in the three fused kernels, for M, K >= 1, groupSize >= 1,
\* numGroups = ceil(N / groupSize) and N a multiple of 4, every column
\* touched is < N and every scale read is scales[k*numGroups + g] with
\* g = column / groupSize < numGroups: each weight column is multiplied by the
\* scale of its own group and no scale slot outside row k is read.
C14_GroupScaleInRange_NMultipleOf4 ==
    (fuKern # "none" /\ N % FuLanes = 0) => FuIndexSafe

\* C14 as stated: the same for every N >= 1.
C14_GroupScaleInRange_EveryN ==
    fuKern # "none" => FuIndexSafe

C14_Witness ==
    /\ fuKern = "nf4" /\ fuPc = "done"
    /\ N = 2 * FuLanes /\ M > 1 /\ K > 1 /\ groupSize = 3
    /\ \E r1 \in fuReads : \E r2 \in fuReads : r1.g # r2.g
    /\ \E r \in fuReads : r.col = N - 1 /\ r.g = numGroups - 1 /\ r.kx = K - 1
    /\ \A x \in DOMAIN fuOut : Len(fuOut[x].terms) = K /\ fuOut[x].act = "gelu"

(***************************************************************************)
(* Part 8.  The horizontal reductions reduce_min_f32_neon and              *)
(* reduce_max_f32_neon.  The floats are modelled by integers; the inputs   *)
(* hold no NaN.                                                            *)
(***************************************************************************)
MaxRdLen == 21     \* *len is -MaxRdNeg .. MaxRdLen
MaxRdNeg == 2
MaxRdSeed == 2     \* input families 0 .. MaxRdSeed
RdStale == 4242    \* a value *result may hold before the call

\* what the guard for n <= 0 leaves in *result: *result = 0.0f
RdGuardResult_Keep(old) == old

RdGuardResult(old) == 0

\* vminq_f32 / vmaxq_f32 of one lane, and the scalar compare-and-replace
RdBetter(kind, x, y) ==
    IF kind = "min" THEN (IF y < x THEN y ELSE x) ELSE (IF y > x THEN y ELSE x)

\* vminq_f32 / vmaxq_f32
RdVec(kind, x, y) == [l \in 1 .. 4 |-> RdBetter(kind, x[l], y[l])]

\* vld1q_f32(input + at0)
RdLoad(buf, at0) == [l \in 1 .. 4 |-> buf[at0 + l - 1]]

\* vminvq_f32 / vmaxvq_f32
RdAcross(kind, x) == RdBetter(kind, RdBetter(kind, x[1], x[2]), RdBetter(kind, x[3], x[4]))

RdInputVal(seed, idx) == ((seed * 7 + idx * 5 + (idx \div 4) * seed) % 11) - 5

RdInit ==
    /\ rdKind \in {"min", "max"}
    /\ rdLen \in (0 - MaxRdNeg) .. MaxRdLen
    /\ \E seed \in 0 .. MaxRdSeed :
          rdInput = [x \in Range0(IF rdLen > 0 THEN rdLen ELSE 2) |-> RdInputVal(seed, x)]
    /\ rdResult \in {RdStale, 0}
    /\ rdBefore = rdResult
    /\ rdI = 0 /\ rdVal = 0
    /\ rdVecs = <<>>
    /\ rdPc = "entry"
    /\ rdReadIdx = {}

\* the guard, min_val = input[0], and the head of the n >= 16 block
RdEntry ==
    /\ rdPc = "entry"
    /\ IF rdLen <= 0
       THEN /\ rdResult' = RdGuardResult(rdResult)
            /\ rdPc' = "done"
            /\ UNCHANGED <<rdI, rdVal, rdVecs, rdReadIdx>>
       ELSE /\ rdVal' = rdInput[0]
            /\ IF rdLen >= 16
               THEN /\ rdVecs' = [x \in 1 .. 4 |-> RdLoad(rdInput, 0)]
                    /\ rdI' = 4
                    /\ rdReadIdx' = Range0(4)
                    /\ rdPc' = "loop16"
               ELSE /\ rdVecs' = rdVecs
                    /\ rdI' = 0
                    /\ rdReadIdx' = {0}
                    /\ rdPc' = "loop4"
            /\ UNCHANGED rdResult
    /\ UNCHANGED <<rdKind, rdLen, rdInput, rdBefore>>
    /\ UNCHANGED notRd

\* for (; i + 15 < n; i += 16): one iteration
RdLoop16 ==
    /\ rdPc = "loop16" /\ rdI + 15 < rdLen
    /\ rdVecs' = [x \in 1 .. 4 |->
                    RdVec(rdKind, rdVecs[x], RdLoad(rdInput, rdI + 4 * (x - 1)))]
    /\ rdReadIdx' = rdReadIdx \cup {rdI + x : x \in Range0(16)}
    /\ rdI' = rdI + 16
    /\ UNCHANGED <<rdKind, rdLen, rdInput, rdResult, rdBefore, rdVal, rdPc>>
    /\ UNCHANGED notRd

\* after the 16-wide loop: the three vminq_f32 and vminvq_f32
RdCombine ==
    /\ rdPc = "loop16" /\ ~(rdI + 15 < rdLen)
    /\ LET min0 == RdVec(rdKind, rdVecs[1], rdVecs[2])
           min2 == RdVec(rdKind, rdVecs[3], rdVecs[4])
       IN  rdVal' = RdAcross(rdKind, RdVec(rdKind, min0, min2))
    /\ rdPc' = "loop4"
    /\ UNCHANGED <<rdKind, rdLen, rdInput, rdResult, rdBefore, rdI, rdVecs, rdReadIdx>>
    /\ UNCHANGED notRd

\* for (; i + 3 < n; i += 4): one iteration, or the exit
RdLoop4 ==
    /\ rdPc = "loop4"
    /\ IF rdI + 3 < rdLen
       THEN /\ rdVal' = RdBetter(rdKind, rdVal, RdAcross(rdKind, RdLoad(rdInput, rdI)))
            /\ rdReadIdx' = rdReadIdx \cup {rdI + x : x \in Range0(4)}
            /\ rdI' = rdI + 4
            /\ rdPc' = rdPc
       ELSE /\ rdPc' = "scalar"
            /\ UNCHANGED <<rdVal, rdReadIdx, rdI>>
    /\ UNCHANGED <<rdKind, rdLen, rdInput, rdResult, rdBefore, rdVecs>>
    /\ UNCHANGED notRd

\* for (; i < n; i++): one iteration, or the exit
RdScalar ==
    /\ rdPc = "scalar"
    /\ IF rdI < rdLen
       THEN /\ rdVal' = RdBetter(rdKind, rdVal, rdInput[rdI])
            /\ rdReadIdx' = rdReadIdx \cup {rdI}
            /\ rdI' = rdI + 1
            /\ rdPc' = rdPc
       ELSE /\ rdPc' = "store"
            /\ UNCHANGED <<rdVal, rdReadIdx, rdI>>
    /\ UNCHANGED <<rdKind, rdLen, rdInput, rdResult, rdBefore, rdVecs>>
    /\ UNCHANGED notRd

\* *result = min_val
RdStore ==
    /\ rdPc = "store"
    /\ rdResult' = rdVal
    /\ rdPc' = "done"
    /\ UNCHANGED <<rdKind, rdLen, rdInput, rdBefore, rdI, rdVal, rdVecs, rdReadIdx>>
    /\ UNCHANGED notRd

RdNext == RdEntry \/ RdLoop16 \/ RdCombine \/ RdLoop4 \/ RdScalar \/ RdStore

InitReduce == MMIdle /\ CvIdle /\ SdIdle /\ StIdle /\ FuIdle /\ RdInit /\ VaIdle /\ LxIdle

SpecReduce == InitReduce /\ [][RdNext]_vars

\* C15: reduce_min_f32_neon and reduce_max_f32_neon called with len <= 0
\* return from the guard having read no element of input, with *result
\* set to 0.
C15_NonPositiveLenStoresZero ==
    (rdKind # "none" /\ rdLen <= 0) =>
        /\ rdReadIdx = {}
        /\ rdPc \in {"entry", "done"}
        /\ rdPc = "done" => rdResult = 0

\* C15 as stated: ... and leave *result unchanged.
C15_NonPositiveLenLeavesResult ==
    (rdKind # "none" /\ rdLen <= 0) =>
        /\ rdReadIdx = {}
        /\ rdPc \in {"entry", "done"}
        /\ rdResult = rdBefore

C15_Witness ==
    /\ rdKind = "min" /\ rdLen < 0 /\ rdPc = "done"
    /\ rdBefore = RdStale /\ rdResult = 0
    /\ rdReadIdx = {} /\ \E x \in DOMAIN rdInput : rdInput[x] # 0

(***************************************************************************)
(* Part 9.  The varint functions of varint_neon_arm64.c.  Each is a        *)
(* function of its arguments; an action applies it to a call drawn by the  *)
(* initial state.  A 64-bit (32-bit) unsigned value is kept as the set of  *)
(* the positions of its 1 bits, so that no value needs more than the       *)
(* integers of the checker: OR is union, and x << s adds s to every        *)
(* position and drops the positions that reach the width.                  *)
(***************************************************************************)
MaxVaN == 6         \* n of the batch decoder is -1 .. MaxVaN
MaxVaDst == 6       \* dst_len of the batch decoder is -1 .. MaxVaDst
MaxEndsN == 70      \* n of find_varint_ends_u8 is -1 .. MaxEndsN
MaxEndsSeed == 2    \* byte patterns 0 .. MaxEndsSeed of find_varint_ends_u8
MaxCtlSeed == 1     \* value-byte patterns 0 .. MaxCtlSeed of the group decoders

\* the 1 bits of a byte
BitsOf(x) == {j \in 0 .. 7 : (x \div Pow2(j)) % 2 = 1}

\* val | ((type)x << sh) on a type of the given width
OrShl(val, x, sh, width) == val \cup {sh + j : j \in {y \in BitsOf(x) : sh + y < width}}

\* the shift is not one of 0 .. width-1, or a 1 bit of x is shifted out
ShlLoses(x, sh, width) == sh < 0 \/ sh >= width \/ \E j \in BitsOf(x) : sh + j >= width

\* an output element the call has not written
VaStale == {64}

Rep(x, cnt) == [y \in 1 .. cnt |-> x]

\* LEB128 encodings, well-formed and not
VaPiece(p) ==
    CASE p = 1 -> <<5>>
      [] p = 2 -> <<172, 2>>
      [] p = 3 -> <<255, 127>>
      [] p = 4 -> Rep(255, 9) \o <<1>>
      [] p = 5 -> Rep(255, 9) \o <<2>>
      [] p = 6 -> Rep(128, 9) \o <<129>>
      [] p = 7 -> Rep(129, 8) \o <<127>>
      [] p = 8 -> Rep(128, 9) \o <<0>>
      [] p = 9 -> Rep(128, 10) \o <<1>>
      [] OTHER -> <<0>>

VaStreams ==
    {<<1, 2, 3, 10, 1>>, <<4, 1>>, <<5, 1>>, <<6, 1>>, <<7, 4>>, <<8, 2>>, <<9>>,
     <<2, 4, 1, 3, 7, 1>>, <<1, 5>>, <<2, 3, 1, 10, 5>>, <<2, 2, 6, 1, 1>>,
     <<3, 7, 8, 4, 2, 1>>}

RECURSIVE VaConcat(_)
VaConcat(st) == IF st = <<>> THEN <<200, 7>> ELSE VaPiece(Head(st)) \o VaConcat(Tail(st))

\* a buffer from 0
VaBuffer(sq) == [x \in Range0(Len(sq)) |-> sq[x + 1]]

VaCleared ==
    /\ vaPc = "call"
    /\ vaConsumed = 0 - 1 /\ vaDecoded = 0 - 1
    /\ vaReads = {} /\ vaLost = FALSE

\* the overflow test on the 10th byte: if (b > 1)
TenthByteOverflows_Never(byte) == FALSE

TenthByteOverflows(byte) == byte > 1

\* ---- decode_uvarint64 ----------------------------------------------------
\* the for loop, from iteration st.i on
RECURSIVE Uvarint64Loop(_, _, _)
Uvarint64Loop(buf, srcLen, st) ==
    IF ~(st.i < srcLen) THEN [st EXCEPT !.consumed = 0, !.value = {}]
    ELSE LET byte == buf[st.i]
             rd   == st.reads \cup {st.i}
         IN  IF st.i >= 10 THEN [st EXCEPT !.consumed = 0, !.value = {}, !.reads = rd]
             ELSE IF st.i = 9 /\ TenthByteOverflows(byte)
             THEN [st EXCEPT !.consumed = 0, !.value = {}, !.reads = rd]
             ELSE IF byte < 128
             THEN [st EXCEPT !.value = OrShl(st.val, byte % 128, st.shift, 64),
                             !.consumed = st.i + 1,
                             !.reads = rd,
                             !.lost = st.lost \/ ShlLoses(byte % 128, st.shift, 64)]
             ELSE Strict1(LAMBDA s1 : Uvarint64Loop(buf, srcLen, s1),
                          [st EXCEPT !.val = OrShl(st.val, byte % 128, st.shift, 64),
                                     !.shift = st.shift + 7,
                                     !.i = st.i + 1,
                                     !.reads = rd,
                                     !.lost = st.lost \/ ShlLoses(byte % 128, st.shift, 64)])

decode_uvarint64(buf, srcLen) ==
    LET st0 == [i |-> 0, val |-> {}, shift |-> 0, value |-> {}, consumed |-> 0,
                reads |-> {}, lost |-> FALSE]
    IN  IF srcLen <= 0 THEN st0 ELSE Uvarint64Loop(buf, srcLen, st0)

VaSingleInit ==
    /\ vaFn = "single"
    /\ \E st \in VaStreams :
          /\ src = VaBuffer(VaConcat(st))
          /\ src_len \in (0 - 1) .. Len(VaConcat(st))
    /\ dst_len = 0 /\ vaN = 0
    /\ vaValues = <<VaStale>>
    /\ VaCleared

VaDecodeSingle ==
    /\ vaFn = "single" /\ vaPc = "call"
    /\ LET r == Strict1(LAMBDA x : x, decode_uvarint64(src, src_len))
       IN  /\ vaValues' = <<r.value>>
           /\ vaConsumed' = r.consumed
           /\ vaReads' = r.reads
           /\ vaLost' = r.lost
    /\ vaPc' = "ret"
    /\ UNCHANGED <<vaFn, src, src_len, dst_len, vaN, vaDecoded>>
    /\ UNCHANGED notVa

\* the index of the first byte below 0x80 at or after from0, -1 if none
\* among the bytes below lim
RECURSIVE FirstEnd(_, _, _)
FirstEnd(buf, from0, lim) ==
    IF from0 >= lim THEN 0 - 1
    ELSE IF buf[from0] < 128 THEN from0
    ELSE FirstEnd(buf, from0 + 1, lim)

\* sum over idx of (buf[from0 + idx] & 0x7f) << (7 * idx), the bit fields
\* being disjoint, as the set of its 1 bits: any position, no width
Leb128Sum(buf, from0, last) ==
    UNION {{7 * (x - from0) + j : j \in BitsOf(buf[x] % 128)} : x \in from0 .. last}

\* the varint at from0 is complete within lim, of at most 10 bytes, and its
\* 10th byte, if any, is at most 1
WellFormedAt(buf, from0, lim) ==
    LET t == FirstEnd(buf, from0, lim)
    IN  /\ t >= 0 /\ t - from0 <= 9
        /\ t - from0 = 9 => buf[t] <= 1

\* C17: decode_uvarint64 returns consumed = t + 1 and the sum of the 7-bit
\* groups when the first byte below 0x80 is at t <= 9 within src_len and
\* (for t = 9) is <= 1, with no shift of 64 or more and no bit lost; in
\* every other case value = 0 and consumed = 0; no byte at an index
\* >= src_len or >= 10 is read.
C17_SingleDecode ==
    (vaFn = "single" /\ vaPc = "ret") =>
        /\ IF WellFormedAt(src, 0, src_len)
           THEN /\ vaConsumed = FirstEnd(src, 0, src_len) + 1
                /\ vaValues[1] = Leb128Sum(src, 0, FirstEnd(src, 0, src_len))
                /\ ~vaLost
           ELSE /\ vaConsumed = 0
                /\ vaValues[1] = {}
        /\ \A x \in vaReads : x < src_len /\ x < 10 /\ x >= 0

C17_Witness ==
    /\ vaFn = "single" /\ vaPc = "ret"
    /\ vaConsumed = 10 /\ 63 \in vaValues[1] /\ 0 \in vaValues[1]
    /\ Cardinality(vaValues[1]) = 64
    /\ src_len > 10 /\ vaReads = Range0(10)

\* ---- decode_2uvarint64 and decode_5uvarint64 ------------------------------
\* the for (;;) loop that decodes one varint from st.start on; st.pos is the
\* next byte.  The three copies in the source are the same loop (in the first
\* of decode_2uvarint64 start is 0).
RECURSIVE VarintFrom(_, _, _)
VarintFrom(buf, srcLen, st) ==
    IF st.pos >= srcLen THEN [st EXCEPT !.ok = FALSE]
    ELSE IF st.pos - st.start >= 10 THEN [st EXCEPT !.ok = FALSE]
    ELSE LET byte == buf[st.pos]
             rd   == st.reads \cup {st.pos}
         IN  IF st.pos + 1 - st.start = 10 /\ TenthByteOverflows(byte)
             THEN [st EXCEPT !.ok = FALSE, !.pos = st.pos + 1, !.reads = rd]
             ELSE IF byte < 128
             THEN [st EXCEPT !.ok = TRUE,
                             !.val = OrShl(st.val, byte % 128, st.shift, 64),
                             !.pos = st.pos + 1,
                             !.reads = rd,
                             !.lost = st.lost \/ ShlLoses(byte % 128, st.shift, 64)]
             ELSE Strict1(LAMBDA s1 : VarintFrom(buf, srcLen, s1),
                          [st EXCEPT !.val = OrShl(st.val, byte % 128, st.shift, 64),
                                     !.shift = st.shift + 7,
                                     !.pos = st.pos + 1,
                                     !.reads = rd,
                                     !.lost = st.lost \/ ShlLoses(byte % 128, st.shift, 64)])

\* val = 0, shift = 0, startPos = pos
VarintStart(at0, reads, lost) ==
    [pos |-> at0, start |-> at0, val |-> {}, shift |-> 0, ok |-> FALSE,
     reads |-> reads, lost |-> lost]

decode_2uvarint64(buf, srcLen) ==
    LET none == [values |-> <<{}, {}>>, consumed |-> 0, reads |-> {}, lost |-> FALSE]
    IN  IF srcLen <= 0 THEN none
        ELSE Strict1(LAMBDA r1 :
                 IF ~r1.ok THEN [none EXCEPT !.reads = r1.reads, !.lost = r1.lost]
                 ELSE Strict1(LAMBDA r2 :
                          IF ~r2.ok THEN [none EXCEPT !.reads = r2.reads, !.lost = r2.lost]
                          ELSE [values |-> <<r1.val, r2.val>>, consumed |-> r2.pos,
                                reads |-> r2.reads, lost |-> r2.lost],
                          VarintFrom(buf, srcLen, VarintStart(r1.pos, r1.reads, r1.lost))),
                 VarintFrom(buf, srcLen, VarintStart(0, {}, FALSE)))

\* values[0] = ... = values[4] = 0 on a failure
FiveReset_Keep(values) == values

FiveReset(values) == [x \in 1 .. 5 |-> {}]

\* for (vi = 0; vi < 5; vi++), from iteration st.vi on
RECURSIVE FiveLoop(_, _, _)
FiveLoop(buf, srcLen, st) ==
    IF ~(st.vi < 5) THEN [st EXCEPT !.consumed = st.pos]
    ELSE Strict1(LAMBDA r :
             IF ~r.ok
             THEN [st EXCEPT !.values = FiveReset(st.values), !.consumed = 0,
                             !.reads = r.reads, !.lost = r.lost]
             ELSE Strict1(LAMBDA s1 : FiveLoop(buf, srcLen, s1),
                          [st EXCEPT !.values[st.vi + 1] = r.val,
                                     !.vi = st.vi + 1,
                                     !.pos = r.pos,
                                     !.reads = r.reads,
                                     !.lost = r.lost]),
             VarintFrom(buf, srcLen, VarintStart(st.pos, st.reads, st.lost)))

decode_5uvarint64(buf, srcLen) ==
    LET st0 == [vi |-> 0, pos |-> 0, values |-> [x \in 1 .. 5 |-> {}], consumed |-> 0,
                reads |-> {}, lost |-> FALSE]
    IN  IF srcLen <= 0 THEN st0 ELSE FiveLoop(buf, srcLen, st0)

VaPairInit ==
    /\ vaFn \in {"pair", "five"}
    /\ \E st \in VaStreams :
          /\ src = VaBuffer(VaConcat(st))
          /\ src_len \in (0 - 1) .. Len(VaConcat(st))
    /\ dst_len = 0 /\ vaN = 0
    /\ vaValues = [x \in 1 .. (IF vaFn = "pair" THEN 2 ELSE 5) |-> VaStale]
    /\ VaCleared

VaDecode2 ==
    /\ vaFn = "pair" /\ vaPc = "call"
    /\ LET r == Strict1(LAMBDA x : x, decode_2uvarint64(src, src_len))
       IN  /\ vaValues' = r.values
           /\ vaConsumed' = r.consumed
           /\ vaReads' = r.reads
           /\ vaLost' = r.lost
    /\ vaPc' = "ret"
    /\ UNCHANGED <<vaFn, src, src_len, dst_len, vaN, vaDecoded>>
    /\ UNCHANGED notVa

VaDecode5 ==
    /\ vaFn = "five" /\ vaPc = "call"
    /\ LET r == Strict1(LAMBDA x : x, decode_5uvarint64(src, src_len))
       IN  /\ vaValues' = r.values
           /\ vaConsumed' = r.consumed
           /\ vaReads' = r.reads
           /\ vaLost' = r.lost
    /\ vaPc' = "ret"
    /\ UNCHANGED <<vaFn, src, src_len, dst_len, vaN, vaDecoded>>
    /\ UNCHANGED notVa

\* the first cnt varints of buf below lim, read one after the other from
\* st.pos: ok if all are well-formed, with their values and the end position
RECURSIVE RefVarints(_, _, _, _)
RefVarints(buf, lim, cnt, st) ==
    IF Len(st.vals) = cnt THEN [st EXCEPT !.ok = TRUE]
    ELSE IF ~WellFormedAt(buf, st.pos, lim) THEN [st EXCEPT !.ok = FALSE]
    ELSE Strict1(LAMBDA t :
             Strict1(LAMBDA s1 : RefVarints(buf, lim, cnt, s1),
                     [st EXCEPT !.vals = Append(st.vals, Leb128Sum(buf, st.pos, t)),
                                !.pos = t + 1]),
             FirstEnd(buf, st.pos, lim))

RefStart == [pos |-> 0, vals |-> <<>>, ok |-> FALSE]

\* C18: decode_2uvarint64 and decode_5uvarint64 either decode all 2 (5)
\* varints, with consumed the sum of their lengths and each output its value,
\* or, when any of them is incomplete or overflows, return every output 0
\* and consumed 0, also when earlier varints of the call had decoded.
C18_AllOrNothing ==
    (vaFn \in {"pair", "five"} /\ vaPc = "ret") =>
        Strict1(LAMBDA ref :
                    IF ref.ok
                    THEN vaValues = ref.vals /\ vaConsumed = ref.pos /\ ~vaLost
                    ELSE /\ \A x \in DOMAIN vaValues : vaValues[x] = {}
                         /\ vaConsumed = 0,
                RefVarints(src, src_len, Len(vaValues), RefStart))

C18_Witness ==
    /\ vaFn = "five" /\ vaPc = "ret"
    /\ vaConsumed = 0
    /\ \A x \in DOMAIN vaValues : vaValues[x] = {}
    /\ WellFormedAt(src, 0, src_len)
    /\ RefVarints(src, src_len, 4, RefStart).ok
    /\ ~RefVarints(src, src_len, 5, RefStart).ok
    /\ RefVarints(src, src_len, 4, RefStart).vals[1] # {}

\* ---- decode_uvarint64_batch ------------------------------------------------
\* *consumed when a varint is incomplete or overflows: *consumed = pos
BatchConsumedOnFail_Partial(pos, bytesRead) == pos + bytesRead

BatchConsumedOnFail(pos, bytesRead) == pos

\* the inner for (;;) loop: one varint at st.pos
RECURSIVE BatchInner(_, _, _)
BatchInner(buf, srcLen, st) ==
    IF st.pos + st.bytesRead >= srcLen THEN [st EXCEPT !.ok = FALSE]
    ELSE LET byte == buf[st.pos + st.bytesRead]
             rd   == st.reads \cup {st.pos + st.bytesRead}
             br   == st.bytesRead + 1
         IN  IF br > 10 THEN [st EXCEPT !.ok = FALSE, !.bytesRead = br, !.reads = rd]
             ELSE IF br = 10 /\ TenthByteOverflows(byte)
             THEN [st EXCEPT !.ok = FALSE, !.bytesRead = br, !.reads = rd]
             ELSE IF byte < 128
             THEN [st EXCEPT !.ok = TRUE,
                             !.val = OrShl(st.val, byte % 128, st.shift, 64),
                             !.bytesRead = br,
                             !.reads = rd,
                             !.lost = st.lost \/ ShlLoses(byte % 128, st.shift, 64)]
             ELSE Strict1(LAMBDA s1 : BatchInner(buf, srcLen, s1),
                          [st EXCEPT !.val = OrShl(st.val, byte % 128, st.shift, 64),
                                     !.shift = st.shift + 7,
                                     !.bytesRead = br,
                                     !.reads = rd,
                                     !.lost = st.lost \/ ShlLoses(byte % 128, st.shift, 64)])

\* for (; count < maxDecode; count++), from iteration st.count on
RECURSIVE BatchOuter(_, _, _, _)
BatchOuter(buf, srcLen, maxDecode, st) ==
    IF ~(st.count < maxDecode) THEN [st EXCEPT !.decoded = st.count, !.consumed = st.pos]
    ELSE IF st.pos >= srcLen THEN [st EXCEPT !.decoded = st.count, !.consumed = st.pos]
    ELSE Strict1(LAMBDA r :
             IF ~r.ok
             THEN [st EXCEPT !.decoded = st.count,
                             !.consumed = BatchConsumedOnFail(st.pos, r.bytesRead),
                             !.reads = r.reads, !.lost = r.lost]
             ELSE Strict1(LAMBDA s1 : BatchOuter(buf, srcLen, maxDecode, s1),
                          [st EXCEPT !.dst[st.count + 1] = r.val,
                                     !.pos = st.pos + r.bytesRead,
                                     !.count = st.count + 1,
                                     !.reads = r.reads,
                                     !.lost = r.lost]),
             BatchInner(buf, srcLen,
                        [pos |-> st.pos, bytesRead |-> 0, val |-> {}, shift |-> 0,
                         ok |-> FALSE, reads |-> st.reads, lost |-> st.lost]))

decode_uvarint64_batch(buf, srcLen, dst, dstLen, cnt) ==
    LET st0 == [pos |-> 0, count |-> 0, dst |-> dst, decoded |-> 0, consumed |-> 0,
                reads |-> {}, lost |-> FALSE]
    IN  IF srcLen <= 0 \/ dstLen <= 0 \/ cnt <= 0 THEN st0
        ELSE BatchOuter(buf, srcLen, Min(cnt, dstLen), st0)

VaBatchInit ==
    /\ vaFn = "batch"
    /\ \E st \in VaStreams :
          /\ src = VaBuffer(VaConcat(st))
          /\ src_len \in {x \in {0 - 1, 0, 1, 2, 5, 9, 10, 11, 12, Len(VaConcat(st)) - 3,
                                  Len(VaConcat(st)) - 2, Len(VaConcat(st))} :
                              x <= Len(VaConcat(st))}
    /\ dst_len \in {0 - 1, 0, 2, MaxVaDst}
    /\ vaN \in {0 - 1, 0, 1, 3, MaxVaN}
    /\ vaValues = [x \in 1 .. (IF dst_len > 0 THEN dst_len ELSE 0) |-> VaStale]
    /\ VaCleared

VaDecodeBatch ==
    /\ vaFn = "batch" /\ vaPc = "call"
    /\ LET r == Strict1(LAMBDA x : x,
                        decode_uvarint64_batch(src, src_len, vaValues, dst_len, vaN))
       IN  /\ vaValues' = r.dst
           /\ vaConsumed' = r.consumed
           /\ vaDecoded' = r.decoded
           /\ vaReads' = r.reads
           /\ vaLost' = r.lost
    /\ vaPc' = "ret"
    /\ UNCHANGED <<vaFn, src, src_len, dst_len, vaN>>
    /\ UNCHANGED notVa

\* src + from0
BufFrom(buf, from0) == [x \in {y - from0 : y \in {z \in DOMAIN buf : z >= from0}} |-> buf[x + from0]]

\* repeated single decoding: decode_uvarint64 on the remaining bytes, store,
\* advance by the length, until maxCount values are stored, the source is
\* exhausted, or the single decoder fails
RECURSIVE RepeatSingle(_, _, _, _)
RepeatSingle(buf, srcLen, maxCount, st) ==
    IF st.count >= maxCount \/ st.pos >= srcLen THEN st
    ELSE Strict1(LAMBDA r :
             IF r.consumed = 0 THEN st
             ELSE Strict1(LAMBDA s1 : RepeatSingle(buf, srcLen, maxCount, s1),
                          [st EXCEPT !.dst[st.count + 1] = r.value,
                                     !.pos = st.pos + r.consumed,
                                     !.count = st.count + 1]),
             decode_uvarint64(BufFrom(buf, st.pos), srcLen - st.pos))

\* C16: decode_uvarint64_batch returns what repeated single decoding gives:
\* decoded is the number of values stored, dst holds them, consumed is the sum
\* of their lengths (the bytes of a failing varint are not consumed,
\* consumed <= src_len), and with src_len, dst_len or n <= 0 both are 0.
C16_BatchIsRepeatedSingle ==
    (vaFn = "batch" /\ vaPc = "ret") =>
        /\ Strict1(LAMBDA ref :
                       /\ vaValues = ref.dst
                       /\ vaDecoded = ref.count
                       /\ vaConsumed = ref.pos,
                   RepeatSingle(src, src_len, Min(vaN, dst_len),
                                [pos |-> 0, count |-> 0,
                                 dst |-> [x \in DOMAIN vaValues |-> VaStale]]))
        /\ vaConsumed <= (IF src_len > 0 THEN src_len ELSE 0)
        /\ vaDecoded <= (IF Min(vaN, dst_len) > 0 THEN Min(vaN, dst_len) ELSE 0)
        /\ (src_len <= 0 \/ dst_len <= 0 \/ vaN <= 0) => vaDecoded = 0 /\ vaConsumed = 0
        /\ \A x \in vaReads : x >= 0 /\ x < src_len

C16_Witness ==
    /\ vaFn = "batch" /\ vaPc = "ret"
    /\ vaDecoded = 2 /\ vaN > 2 /\ dst_len > 2
    /\ vaConsumed > 2 /\ vaConsumed + 10 <= src_len
    /\ src[vaConsumed + 9] > 1
    /\ vaValues[1] # {} /\ vaValues[2] # {} /\ vaValues[3] = VaStale
    /\ Cardinality(vaReads) = vaConsumed + 10

\* ---- decode_group_varint32 and decode_group_varint64 ------------------------
\* ((control >> (bits * idx)) & (2^bits - 1)) + 1
GroupLen(control, idx, bits) == ((control \div Pow2(bits * idx)) % Pow2(bits)) + 1

\* totalLen = 1 + len0 + len1 + len2 + len3 (2 + ... for the 64-bit form)
GroupTotalLen_NoControl(ctlBytes, lens) == lens[1] + lens[2] + lens[3] + lens[4]

GroupTotalLen(ctlBytes, lens) == ctlBytes + lens[1] + lens[2] + lens[3] + lens[4]

\* for (j = 0; j < len; j++) v |= ((type)src[offset + j]) << (8 * j)
RECURSIVE GroupValue(_, _, _, _, _)
GroupValue(buf, offset, lenv, width, st) ==
    IF ~(st.j < lenv) THEN st
    ELSE Strict1(LAMBDA s1 : GroupValue(buf, offset, lenv, width, s1),
                 [st EXCEPT !.val = OrShl(st.val, buf[offset + st.j], 8 * st.j, width),
                            !.j = st.j + 1,
                            !.reads = st.reads \cup {offset + st.j},
                            !.lost = st.lost \/ ShlLoses(buf[offset + st.j], 8 * st.j, width)])

\* the four value loops, one after the other
RECURSIVE GroupValues(_, _, _, _)
GroupValues(buf, lens, width, st) ==
    IF st.vi > 4 THEN st
    ELSE Strict1(LAMBDA r :
             Strict1(LAMBDA s1 : GroupValues(buf, lens, width, s1),
                     [st EXCEPT !.values[st.vi] = r.val,
                                !.offset = st.offset + lens[st.vi],
                                !.vi = st.vi + 1,
                                !.reads = r.reads,
                                !.lost = r.lost]),
             GroupValue(buf, st.offset, lens[st.vi], width,
                        [j |-> 0, val |-> {}, reads |-> st.reads, lost |-> st.lost]))

GroupDecode(buf, srcLen, values, ctlBytes, bits, width) ==
    LET none == [values |-> values, consumed |-> 0, reads |-> {}, lost |-> FALSE]
    IN  IF srcLen < ctlBytes THEN none
        ELSE LET control  == IF ctlBytes = 1 THEN buf[0] ELSE buf[0] + 256 * buf[1]
                 lens     == [x \in 1 .. 4 |-> GroupLen(control, x - 1, bits)]
                 totalLen == GroupTotalLen(ctlBytes, lens)
                 ctlReads == Range0(ctlBytes)
             IN  IF srcLen < totalLen THEN [none EXCEPT !.reads = ctlReads]
                 ELSE Strict1(LAMBDA r :
                          [values |-> r.values, consumed |-> totalLen,
                           reads |-> r.reads, lost |-> r.lost],
                          GroupValues(buf, lens, width,
                                      [vi |-> 1, offset |-> ctlBytes, values |-> values,
                                       reads |-> ctlReads, lost |-> FALSE]))

decode_group_varint32(buf, srcLen, values) == GroupDecode(buf, srcLen, values, 1, 2, 32)

decode_group_varint64(buf, srcLen, values) == GroupDecode(buf, srcLen, values, 2, 3, 64)

\* control words: 1 byte for the 32-bit form, 2 bytes (low byte first) for
\* the 64-bit form, there with the top 4 bits clear and set
GroupControls(fn) ==
    IF fn = "group32" THEN {<<0>>, <<255>>, <<27>>, <<228>>, <<141>>}
    ELSE {<<0, 0>>, <<255, 15>>, <<255, 255>>, <<0, 240>>, <<83, 10>>, <<193, 245>>}

GroupByte(seed, idx) == ((idx * 53 + seed * 101 + 17) % 255) + 1

VaGroupInit ==
    /\ vaFn \in {"group32", "group64"}
    /\ \E ctl \in GroupControls(vaFn), seed \in 0 .. MaxCtlSeed :
          src = VaBuffer(ctl \o [x \in 1 .. (IF vaFn = "group32" THEN 18 ELSE 34) |->
                                    GroupByte(seed, x)])
    /\ src_len \in (0 - 1) .. (IF vaFn = "group32" THEN 19 ELSE 36)
    /\ dst_len = 0 /\ vaN = 0
    /\ vaValues = [x \in 1 .. 4 |-> VaStale]
    /\ VaCleared

VaGroup32 ==
    /\ vaFn = "group32" /\ vaPc = "call"
    /\ LET r == Strict1(LAMBDA x : x, decode_group_varint32(src, src_len, vaValues))
       IN  /\ vaValues' = r.values
           /\ vaConsumed' = r.consumed
           /\ vaReads' = r.reads
           /\ vaLost' = r.lost
    /\ vaPc' = "ret"
    /\ UNCHANGED <<vaFn, src, src_len, dst_len, vaN, vaDecoded>>
    /\ UNCHANGED notVa

VaGroup64 ==
    /\ vaFn = "group64" /\ vaPc = "call"
    /\ LET r == Strict1(LAMBDA x : x, decode_group_varint64(src, src_len, vaValues))
       IN  /\ vaValues' = r.values
           /\ vaConsumed' = r.consumed
           /\ vaReads' = r.reads
           /\ vaLost' = r.lost
    /\ vaPc' = "ret"
    /\ UNCHANGED <<vaFn, src, src_len, dst_len, vaN, vaDecoded>>
    /\ UNCHANGED notVa

\* the format: len_i - 1 is the i-th field of the control word, of which the
\* 64-bit form uses the low 12 bits
FormatLen(fn, idx) ==
    IF fn = "group32"
    THEN ((src[0] \div Pow2(2 * idx)) % 4) + 1
    ELSE (((src[0] + 256 * (src[1] % 16)) \div Pow2(3 * idx)) % 8) + 1

FormatCtl(fn) == IF fn = "group32" THEN 1 ELSE 2

FormatTotal(fn) ==
    FormatCtl(fn) + FormatLen(fn, 0) + FormatLen(fn, 1) + FormatLen(fn, 2) + FormatLen(fn, 3)

\* where value idx starts
FormatOffset(fn, idx) ==
    FormatCtl(fn) + (IF idx > 0 THEN FormatLen(fn, 0) ELSE 0)
                  + (IF idx > 1 THEN FormatLen(fn, 1) ELSE 0)
                  + (IF idx > 2 THEN FormatLen(fn, 2) ELSE 0)

\* the little-endian integer of the lenv bytes from from0, as its 1 bits
LittleEndian(buf, from0, lenv) ==
    UNION {{8 * x + j : j \in BitsOf(buf[from0 + x])} : x \in Range0(lenv)}

\* C19: decode_group_varint32 (64) with src_len >= total = 1 (2) + sum len_i
\* returns values[i] = the little-endian integer of the len_i bytes after the
\* previous value and consumed = total, in 5..17 (6..34); with
\* src_len < total it returns consumed = 0 and writes no element of values.
\* The 64-bit form ignores the top 4 control bits.
C19_GroupVarint ==
    (vaFn \in {"group32", "group64"} /\ vaPc = "ret") =>
        IF src_len >= FormatCtl(vaFn) /\ src_len >= FormatTotal(vaFn)
        THEN /\ vaConsumed = FormatTotal(vaFn)
             /\ \A x \in 1 .. 4 :
                   vaValues[x] = LittleEndian(src, FormatOffset(vaFn, x - 1),
                                              FormatLen(vaFn, x - 1))
             /\ IF vaFn = "group32"
                THEN vaConsumed >= 5 /\ vaConsumed <= 17
                ELSE vaConsumed >= 6 /\ vaConsumed <= 34
             /\ ~vaLost
             /\ vaReads = Range0(vaConsumed)
        ELSE /\ vaConsumed = 0
             /\ \A x \in 1 .. 4 : vaValues[x] = VaStale
             /\ \A x \in vaReads : x >= 0 /\ x < src_len

C19_Witness ==
    /\ vaFn = "group64" /\ vaPc = "ret"
    /\ src[1] >= 240 /\ src[0] # 0
    /\ vaConsumed = FormatTotal(vaFn) /\ vaConsumed < src_len
    /\ \E x \in 1 .. 4 : \E y \in 1 .. 4 :
          /\ FormatLen(vaFn, x - 1) = 8 /\ 63 \in vaValues[x]
          /\ FormatLen(vaFn, y - 1) < 4 /\ vaValues[y] # {}

\* ---- find_varint_ends_u8 --------------------------------------------------
\* if (n > 64) n = 64
EndsClamp_None(nn) == nn

EndsClamp(nn) == IF nn > 64 THEN 64 ELSE nn

\* one 16-byte block: vshrq_n_u8(v, 7), veorq_u8 with 1, the 16 lane shifts
EndsLaneMask(buf, at0) == {l \in Range0(16) : (buf[at0 + l] \div 128 + 1) % 2 = 1}

\* for (; i + 16 <= n; i += 16): mask |= laneMask << i
RECURSIVE EndsVector(_, _, _)
EndsVector(buf, nn, st) ==
    IF ~(st.i + 16 <= nn) THEN st
    ELSE Strict1(LAMBDA s1 : EndsVector(buf, nn, s1),
                 [st EXCEPT !.mask = st.mask \cup
                                {st.i + l : l \in {y \in EndsLaneMask(buf, st.i) : st.i + y < 64}},
                            !.lost = st.lost \/ st.i >= 64
                                       \/ \E l \in EndsLaneMask(buf, st.i) : st.i + l >= 64,
                            !.reads = st.reads \cup {st.i + l : l \in Range0(16)},
                            !.i = st.i + 16])

\* for (; i < n; i++) if (src[i] < 0x80) mask |= 1LL << i.  1LL << 63 and
\* beyond are shifts a signed 64-bit integer does not have.
RECURSIVE EndsTail(_, _, _)
EndsTail(buf, nn, st) ==
    IF ~(st.i < nn) THEN st
    ELSE Strict1(LAMBDA s1 : EndsTail(buf, nn, s1),
                 [st EXCEPT !.mask = IF buf[st.i] < 128 /\ st.i < 63
                                     THEN st.mask \cup {st.i} ELSE st.mask,
                            !.lost = st.lost \/ (buf[st.i] < 128 /\ st.i >= 63),
                            !.reads = st.reads \cup {st.i},
                            !.i = st.i + 1])

find_varint_ends_u8(buf, nn) ==
    LET st0 == [i |-> 0, mask |-> {}, reads |-> {}, lost |-> FALSE]
    IN  IF nn <= 0 THEN st0
        ELSE Strict1(LAMBDA s1 : EndsTail(buf, EndsClamp(nn), s1),
                     EndsVector(buf, EndsClamp(nn), st0))

EndsByte(seed, idx) == (idx * 37 + seed * 91 + (idx \div 16) * 13) % 256

VaEndsInit ==
    /\ vaFn = "ends"
    /\ \E seed \in 0 .. MaxEndsSeed :
          src = [x \in Range0(MaxEndsN + 2) |-> EndsByte(seed, x)]
    /\ src_len \in (0 - 1) .. MaxEndsN
    /\ dst_len = 0 /\ vaN = 0
    /\ vaValues = <<VaStale>>
    /\ VaCleared

VaFindEnds ==
    /\ vaFn = "ends" /\ vaPc = "call"
    /\ LET r == Strict1(LAMBDA x : x, find_varint_ends_u8(src, src_len))
       IN  /\ vaValues' = <<r.mask>>
           /\ vaReads' = r.reads
           /\ vaLost' = r.lost
    /\ vaPc' = "ret"
    /\ UNCHANGED <<vaFn, src, src_len, dst_len, vaN, vaConsumed, vaDecoded>>
    /\ UNCHANGED notVa

\* C20: find_varint_ends_u8 returns 0 for n <= 0; otherwise bit i of the
\* result is 1 exactly when i < min(n, 64) and src[i] < 0x80, in the vector
\* blocks and in the scalar tail alike; only the first min(n, 64) bytes are
\* read.
C20_FindEnds ==
    (vaFn = "ends" /\ vaPc = "ret") =>
        IF src_len <= 0
        THEN vaValues[1] = {} /\ vaReads = {}
        ELSE /\ vaValues[1] = {x \in Range0(Min(src_len, 64)) : src[x] < 128}
             /\ vaReads = Range0(Min(src_len, 64))
             /\ ~vaLost

C20_Witness ==
    /\ vaFn = "ends" /\ vaPc = "ret"
    /\ src_len > 16 /\ src_len < 64 /\ src_len % 16 > 1
    /\ \E x \in vaValues[1] : x < 16
    /\ \E x \in vaValues[1] : x >= 16 * (src_len \div 16)
    /\ \E x \in Range0(16) : src[x] >= 128
    /\ \E x \in Range0(src_len) : x >= 16 * (src_len \div 16) /\ src[x] >= 128

\* ---- the calls --------------------------------------------------------------
VaInit == VaSingleInit \/ VaPairInit \/ VaBatchInit \/ VaGroupInit \/ VaEndsInit

VaNext ==
    \/ VaFindEnds
    \/ VaDecodeBatch
    \/ VaGroup32
    \/ VaGroup64
    \/ VaDecodeSingle
    \/ VaDecode2
    \/ VaDecode5

InitVarint == MMIdle /\ CvIdle /\ SdIdle /\ StIdle /\ FuIdle /\ RdIdle /\ VaInit /\ LxIdle

SpecVarint == InitVarint /\ [][VaNext]_vars

(***************************************************************************)
(* Part 10.  The RaBitQ bit products: rabitq_bit_product_neon              *)
(* (rabitq_neon_arm64.c) and rabitq_bit_product_sme (rabitq_sme_arm64.c).  *)
(*                                                                         *)
(* A 64-bit word of code, q1 .. q4 is the set of the positions of its 1    *)
(* bits.  A uint32_t (the lanes, the sums and the result expression of the *)
(* NEON kernel) is the pair <<hi, lo>> of its 16-bit halves, with Add32    *)
(* and Lsl32 of part 2, so that it wraps modulo 2^32.  An unsigned long    *)
(* (the lanes, the sums and the result of the SME kernel, and *res of      *)
(* both) is the pair <<hi, lo>> with lo below 2^16 and hi the rest; hi     *)
(* stays far below 2^48 for every length of the model.                     *)
(*                                                                         *)
(* The words are periodic in the index with period 8, so a run of          *)
(* consecutive iterations that starts a whole number of periods apart adds *)
(* the same amounts each time; RbBurst takes such a run in one step, which *)
(* lets the model reach the lengths at which 32 bits are not enough.       *)
(***************************************************************************)
MaxRbLen == 19

MaxRbSeed == 1

\* the long lengths of the model are RbLongLen .. RbLongLen + MaxRbOver
RbLongLen == 4473920

MaxRbOver == 9

\* the iterations left to single steps after a burst, in groups of 8 words
MaxRbSingle == 2

\* svcntd(): 128-, 256- and 512-bit streaming vectors
RbVls == {2, 4, 8}

RbLens == (0 .. MaxRbLen) \cup (RbLongLen .. (RbLongLen + MaxRbOver))

\* code (arr = 0) and q1 .. q4 (arr = 1 .. 4) at an index
RbWord(seed, arr, idx) ==
    IF seed = 0
    THEN 0 .. 63
    ELSE {x \in 0 .. 63 : (x * (arr + 2) + (idx % 8) * 7 + arr * seed) % 5 < 3}

\* vandq_u64 / svand_u64_z / code[i] & qW[i]
RbAnd(seed, a, idx) == RbWord(seed, 0, idx) \cap RbWord(seed, a, idx)

\* __builtin_popcountll / svcnt_u64_z
Popcount(w) == Cardinality(w)

\* vcntq_u8 of the vector that starts at word e: byte bt of 16
Vcnt(seed, a, e, bt) ==
    Cardinality({x \in RbAnd(seed, a, e + (bt \div 8)) : x \div 8 = bt % 8})

\* vpaddlq_u16(vpaddlq_u8(.)): lane l of 4
Vpaddl(seed, a, e, l) ==
    (Vcnt(seed, a, e, 4 * l) + Vcnt(seed, a, e, 4 * l + 1))
    + (Vcnt(seed, a, e, 4 * l + 2) + Vcnt(seed, a, e, 4 * l + 3))

\* a number below 2^31 as a pair
ToPair(x) == <<x \div Half, x % Half>>

\* addition and left shift of unsigned long
Add64(x, y) ==
    LET lo == x[2] + y[2]
    IN  <<x[1] + y[1] + (lo \div Half), lo % Half>>

Shl64(x, sh) ==
    LET lo == x[2] * Pow2(sh)
    IN  <<x[1] * Pow2(sh) + (lo \div Half), lo % Half>>

RbAdd(kn, x, y) == IF kn = "neon" THEN Add32(x, y) ELSE Add64(x, y)

RbShl(kn, x, sh) == IF kn = "neon" THEN Lsl32(x, sh) ELSE Shl64(x, sh)

\* how many groups of 8 words the next step takes at once (0: one iteration)
RbBurst(left) == IF left \div 8 > MaxRbSingle THEN left \div 8 - MaxRbSingle ELSE 0

\* ---- the reference: sum over i < len of the weighted popcounts --------------
RbTerm(seed, idx) ==
    Popcount(RbAnd(seed, 1, idx)) + 2 * Popcount(RbAnd(seed, 2, idx))
    + 4 * Popcount(RbAnd(seed, 3, idx)) + 8 * Popcount(RbAnd(seed, 4, idx))

RECURSIVE RbTermsBelow(_, _)
RbTermsBelow(seed, cnt) ==
    IF cnt = 0 THEN 0 ELSE RbTermsBelow(seed, cnt - 1) + RbTerm(seed, cnt - 1)

\* the product of a number below 2^31 and one below 2^15, as a pair
MulPair(x, f) ==
    LET lo == (x % Half) * f
    IN  <<(x \div Half) * f + (lo \div Half), lo % Half>>

\* the terms repeat with period 8
RbRef(seed, len) ==
    Add64(MulPair(len \div 8, RbTermsBelow(seed, 8)),
          ToPair(RbTermsBelow(seed, len % 8)))

\* ---- the call ---------------------------------------------------------------
RbInit ==
    /\ rbKern \in {"neon", "sme"}
    /\ rbLen \in RbLens
    /\ rbSeed \in 0 .. MaxRbSeed
    /\ rbVl \in IF rbKern = "sme" THEN RbVls ELSE {0}
    /\ rbI = 0 /\ rbAcc = <<>> /\ rbSums = <<>> /\ rbRes = <<0, 0>>
    /\ rbPc = "enter" /\ rbCounted = 0

\* rabitq_neon_arm64.c:16-39: size = *len, the sixteen accumulators zeroed, i = 0
RbNeonEnter ==
    /\ rbKern = "neon" /\ rbPc = "enter"
    /\ rbAcc' = [a \in 1 .. 4 |-> [y \in 0 .. 3 |-> [l \in 0 .. 3 |-> <<0, 0>>]]]
    /\ rbI' = 0
    /\ rbPc' = "loop8"
    /\ UNCHANGED <<rbKern, rbLen, rbSeed, rbVl, rbSums, rbRes, rbCounted>>
    /\ UNCHANGED notRb

\* rabitq_neon_arm64.c:42-91: while (i + 8 <= size), four vectors of two words
\* for each of code, q1 .. q4; sumW_vecY += vpaddlq_u16(vpaddlq_u8(vcntq_u8(and)))
RbNeonLoop8 ==
    /\ rbKern = "neon" /\ rbPc = "loop8"
    /\ IF rbI + 8 <= rbLen
       THEN LET times == IF RbBurst(rbLen - rbI) = 0 THEN 1 ELSE RbBurst(rbLen - rbI)
            IN  /\ rbAcc' = [a \in 1 .. 4 |-> [y \in 0 .. 3 |-> [l \in 0 .. 3 |->
                        Add32(rbAcc[a][y][l],
                              ToPair(times * Vpaddl(rbSeed, a, rbI + 2 * y, l)))]]]
                /\ rbI' = rbI + 8 * times
                /\ rbCounted' = rbCounted + 8 * times
                /\ UNCHANGED rbPc
       ELSE /\ rbPc' = "loop2"
            /\ UNCHANGED <<rbAcc, rbI, rbCounted>>
    /\ UNCHANGED <<rbKern, rbLen, rbSeed, rbVl, rbSums, rbRes>>
    /\ UNCHANGED notRb

\* rabitq_neon_arm64.c:94-111: while (i + 2 <= size), one vector, into sumW_vec0
RbNeonLoop2 ==
    /\ rbKern = "neon" /\ rbPc = "loop2"
    /\ IF rbI + 2 <= rbLen
       THEN /\ rbAcc' = [a \in 1 .. 4 |-> [rbAcc[a] EXCEPT ![0] =
                    [l \in 0 .. 3 |->
                        Add32(rbAcc[a][0][l], ToPair(Vpaddl(rbSeed, a, rbI, l)))]]]
            /\ rbI' = rbI + 2
            /\ rbCounted' = rbCounted + 2
            /\ UNCHANGED rbPc
       ELSE /\ rbPc' = "reduce"
            /\ UNCHANGED <<rbAcc, rbI, rbCounted>>
    /\ UNCHANGED <<rbKern, rbLen, rbSeed, rbVl, rbSums, rbRes>>
    /\ UNCHANGED notRb

\* vaddvq_u32
Vaddv(vec) == Add32(Add32(vec[0], vec[1]), Add32(vec[2], vec[3]))

\* rabitq_neon_arm64.c:114-121: sumW = vaddvq_u32(vec0) + ... + vaddvq_u32(vec3)
RbNeonReduce ==
    /\ rbKern = "neon" /\ rbPc = "reduce"
    /\ rbSums' = [a \in 1 .. 4 |->
            Add32(Add32(Add32(Vaddv(rbAcc[a][0]), Vaddv(rbAcc[a][1])),
                        Vaddv(rbAcc[a][2])), Vaddv(rbAcc[a][3]))]
    /\ rbPc' = "tail"
    /\ UNCHANGED <<rbKern, rbLen, rbSeed, rbVl, rbI, rbAcc, rbRes, rbCounted>>
    /\ UNCHANGED notRb

\* rabitq_sme_arm64.c:30-51: len = *plen, the sums zeroed, vl = svcntd(), i = 0,
\* and, if (len >= vl), the four accumulators zeroed
RbSmeEnter ==
    /\ rbKern = "sme" /\ rbPc = "enter"
    /\ rbSums' = [a \in 1 .. 4 |-> <<0, 0>>]
    /\ rbI' = 0
    /\ IF rbLen >= rbVl
       THEN /\ rbAcc' = [a \in 1 .. 4 |-> [j \in Range0(rbVl) |-> <<0, 0>>]]
            /\ rbPc' = "loop"
       ELSE /\ rbPc' = "tail"
            /\ UNCHANGED rbAcc
    /\ UNCHANGED <<rbKern, rbLen, rbSeed, rbVl, rbRes, rbCounted>>
    /\ UNCHANGED notRb

\* the popcounts lane j receives from the iterations at i, i + vl, ..., below
\* i + span
RECURSIVE SmeLane(_, _, _, _, _, _)
SmeLane(seed, a, at0, j, vl, span) ==
    IF span <= 0 THEN 0
    ELSE Popcount(RbAnd(seed, a, at0 + j))
         + SmeLane(seed, a, at0 + vl, j, vl, span - vl)

\* rabitq_sme_arm64.c:53-78: for (; i + vl <= len; i += vl)
\* accW = svadd_u64_z(pg, accW, svcnt_u64_z(pg, svand_u64_z(pg, code, qW)))
RbSmeLoop ==
    /\ rbKern = "sme" /\ rbPc = "loop"
    /\ IF rbI + rbVl <= rbLen
       THEN LET burst == RbBurst(rbLen - rbI)
                span  == IF burst = 0 THEN rbVl ELSE 8
                times == IF burst = 0 THEN 1 ELSE burst
            IN  /\ rbAcc' = [a \in 1 .. 4 |-> [j \in Range0(rbVl) |->
                        Add64(rbAcc[a][j],
                              ToPair(times * SmeLane(rbSeed, a, rbI, j, rbVl, span)))]]
                /\ rbI' = rbI + span * times
                /\ rbCounted' = rbCounted + span * times
                /\ UNCHANGED rbPc
       ELSE /\ rbPc' = "reduce"
            /\ UNCHANGED <<rbAcc, rbI, rbCounted>>
    /\ UNCHANGED <<rbKern, rbLen, rbSeed, rbVl, rbSums, rbRes>>
    /\ UNCHANGED notRb

\* svaddv_u64 of the lanes below cnt
RECURSIVE Svaddv(_, _)
Svaddv(vec, cnt) ==
    IF cnt = 0 THEN <<0, 0>> ELSE Add64(Svaddv(vec, cnt - 1), vec[cnt - 1])

\* rabitq_sme_arm64.c:81-84: sumW = svaddv_u64(pg, accW)
RbSmeReduce ==
    /\ rbKern = "sme" /\ rbPc = "reduce"
    /\ rbSums' = [a \in 1 .. 4 |-> Svaddv(rbAcc[a], rbVl)]
    /\ rbPc' = "tail"
    /\ UNCHANGED <<rbKern, rbLen, rbSeed, rbVl, rbI, rbAcc, rbRes, rbCounted>>
    /\ UNCHANGED notRb

\* rabitq_neon_arm64.c:124-129, rabitq_sme_arm64.c:88-94: the scalar remainder
\* sumW += __builtin_popcountll(code[i] & qW[i])
RbTail ==
    /\ rbPc = "tail"
    /\ IF rbI < rbLen
       THEN /\ rbSums' = [a \in 1 .. 4 |->
                    RbAdd(rbKern, rbSums[a], ToPair(Popcount(RbAnd(rbSeed, a, rbI))))]
            /\ rbI' = rbI + 1
            /\ rbCounted' = rbCounted + 1
            /\ UNCHANGED rbPc
       ELSE /\ rbPc' = "store"
            /\ UNCHANGED <<rbSums, rbI, rbCounted>>
    /\ UNCHANGED <<rbKern, rbLen, rbSeed, rbVl, rbAcc, rbRes>>
    /\ UNCHANGED notRb

\* a result expression with sum8 shifted by 2 instead of 3
RbWeightedShift2(kn, sums) ==
    RbAdd(kn, RbAdd(kn, RbAdd(kn, sums[1], RbShl(kn, sums[2], 1)),
                    RbShl(kn, sums[3], 2)), RbShl(kn, sums[4], 2))

\* sum1 + (sum2 << 1) + (sum4 << 2) + (sum8 << 3), in uint32_t (neon) or
\* unsigned long (sme)
RbWeighted(kn, sums) ==
    RbAdd(kn, RbAdd(kn, RbAdd(kn, sums[1], RbShl(kn, sums[2], 1)),
                    RbShl(kn, sums[3], 2)), RbShl(kn, sums[4], 3))

\* rabitq_neon_arm64.c:132, rabitq_sme_arm64.c:97: the store to *res
RbStore ==
    /\ rbPc = "store"
    /\ rbRes' = RbWeighted(rbKern, rbSums)
    /\ rbPc' = "done"
    /\ UNCHANGED <<rbKern, rbLen, rbSeed, rbVl, rbI, rbAcc, rbSums, rbCounted>>
    /\ UNCHANGED notRb

RbNext ==
    \/ RbNeonEnter
    \/ RbNeonLoop8
    \/ RbNeonLoop2
    \/ RbNeonReduce
    \/ RbSmeEnter
    \/ RbSmeLoop
    \/ RbSmeReduce
    \/ RbTail
    \/ RbStore

InitRabitq ==
    /\ MMIdle /\ CvIdle /\ SdIdle /\ StIdle /\ FuIdle /\ RdIdle /\ VaIdle
    /\ RbInit /\ OpIdle

SpecRabitq == InitRabitq /\ [][RbNext]_vars

\* the low 32 bits of an unsigned long
Low32(x) == <<x[1] % Half, x[2]>>

MaxOpN == 22

MaxOpSeed == 15

\* (a[i] == b[i]) ? -1 : 0, and the all-ones lane of vceqq_f32 read as int
EqTrue == 0 - 1

\* ---- the inputs -------------------------------------------------------------
\* input of masked_load_f32_neon: never 0, so that a selected lane shows
OpInput(seed, idx) == 10 + idx + 100 * seed

\* mask: zero, the all-ones of a comparison, and other values of either sign
OpMaskVals == <<EqTrue, 0, 1, 0 - 7, 0, 5, EqTrue, 2>>

OpMask(seed, idx) == OpMaskVals[((idx * 3 + seed) % Len(OpMaskVals)) + 1]

\* the 16-byte table of tbl_u8_neon: never 0
OpTbl(seed, j) == 1 + ((j * 17 + seed) % 255)

\* idx of tbl_u8_neon: over the seeds and the first 16 indices, every byte
OpIdx(seed, idx) == 16 * ((seed + idx) % 16) + ((2 * idx + seed) % 16)

\* input of round_f32_neon in quarters: -2.75 .. 3.0 over the seeds and indices
OpQuarters(seed, idx) == ((idx * 5 + seed * 3) % 24) - 11

\* ---- the lane operations ----------------------------------------------------
\* vcgtq_s32(m, vdupq_n_s32(0)): all ones where the lane is greater than zero
Vcgt0(mk) == mk > 0

\* vbslq_f32(cmp, v, zero)
Vbsl(cmp, val, other) == IF cmp THEN val ELSE other

\* a lookup that uses the low four bits of the index: tbl[index & 0x0F]
TblLowBits(seed, index) == OpTbl(seed, index % 16)

\* vqtbl1q_u8: an index of 16 or more selects 0
Vqtbl1(seed, index) == IF index < 16 THEN OpTbl(seed, index) ELSE 0

\* (index < 16) ? tbl[index] : 0
TblScalar(seed, index) == IF index < 16 THEN OpTbl(seed, index) ELSE 0

\* vrndnq_f32: to the nearest integer, a tie to the even one
Vrndn(qt) ==
    LET fl == qt \div 4
        rm == qt % 4
    IN  IF rm < 2 THEN fl
        ELSE IF rm > 2 THEN fl + 1
        ELSE IF fl % 2 = 0 THEN fl ELSE fl + 1

\* __builtin_roundf: to the nearest integer, a tie away from zero
Roundf(qt) == IF qt >= 0 THEN (qt + 2) \div 4 ELSE 0 - ((2 - qt) \div 4)

\* ---- the calls --------------------------------------------------------------
OpInit ==
    /\ opFn \in {"masked_load", "tbl", "round"}
    /\ opN \in 0 .. MaxOpN
    /\ opSeed \in 0 .. MaxOpSeed
    /\ opI = 0
    /\ opPc = IF opFn = "masked_load" THEN "loop4" ELSE "loop16"
    /\ opResult = [x \in Range0(opN) |-> Poison]
    /\ opPath = [x \in Range0(opN) |-> "none"]

\* the stores of one iteration: indices opI .. opI + width - 1
OpStep(width, Lane(_), path, exit) ==
    /\ IF opI + (width - 1) < opN
       THEN /\ opResult' = [x \in Range0(opN) |->
                    IF x >= opI /\ x < opI + width THEN Lane(x) ELSE opResult[x]]
            /\ opPath' = [x \in Range0(opN) |->
                    IF x >= opI /\ x < opI + width THEN path ELSE opPath[x]]
            /\ opI' = opI + width
            /\ UNCHANGED opPc
       ELSE /\ opPc' = exit
            /\ UNCHANGED <<opResult, opPath, opI>>
    /\ UNCHANGED <<opFn, opN, opSeed>>
    /\ UNCHANGED notOp

\* ops_neon_arm64.c:964-973: for (; i + 3 < n; i += 4)
MaskedLane4(x) == Vbsl(Vcgt0(OpMask(opSeed, x)), OpInput(opSeed, x), 0)

MaskedLoop4 ==
    /\ opFn = "masked_load" /\ opPc = "loop4"
    /\ OpStep(4, MaskedLane4, "loop4", "scalar")

\* ops_neon_arm64.c:976-978: result[i] = mask[i] ? input[i] : 0.0f
MaskedLane1(x) == IF OpMask(opSeed, x) # 0 THEN OpInput(opSeed, x) ELSE 0

MaskedScalar ==
    /\ opFn = "masked_load" /\ opPc = "scalar"
    /\ OpStep(1, MaskedLane1, "scalar", "done")

\* ops_neon_arm64.c:1184-1191: for (; i + 15 < n; i += 16), with tbl_vec loaded
TblLane16(x) == Vqtbl1(opSeed, OpIdx(opSeed, x))

TblLoop16 ==
    /\ opFn = "tbl" /\ opPc = "loop16"
    /\ OpStep(16, TblLane16, "loop16", "scalar")

\* ops_neon_arm64.c:1194-1197: the scalar remainder
TblLane1(x) == TblScalar(opSeed, OpIdx(opSeed, x))

TblRemainder ==
    /\ opFn = "tbl" /\ opPc = "scalar"
    /\ OpStep(1, TblLane1, "scalar", "done")

\* ops_neon_arm64.c:759-769: for (; i + 15 < n; i += 16), four vrndnq_f32
RoundLaneV(x) == Vrndn(OpQuarters(opSeed, x))

RoundLoop16 ==
    /\ opFn = "round" /\ opPc = "loop16"
    /\ OpStep(16, RoundLaneV, "loop16", "loop4")

\* ops_neon_arm64.c:772-775: for (; i + 3 < n; i += 4)
RoundLoop4 ==
    /\ opFn = "round" /\ opPc = "loop4"
    /\ OpStep(4, RoundLaneV, "loop4", "scalar")

\* ops_neon_arm64.c:778-780: result[i] = __builtin_roundf(input[i])
RoundLane1(x) == Roundf(OpQuarters(opSeed, x))

RoundScalar ==
    /\ opFn = "round" /\ opPc = "scalar"
    /\ OpStep(1, RoundLane1, "scalar", "done")

OpNext ==
    \/ MaskedLoop4
    \/ MaskedScalar
    \/ TblLoop16
    \/ TblRemainder
    \/ RoundLoop16
    \/ RoundLoop4
    \/ RoundScalar

InitOps ==
    /\ MMIdle /\ CvIdle /\ SdIdle /\ StIdle /\ FuIdle /\ RdIdle /\ VaIdle
    /\ RbIdle /\ OpInit

SpecOps == InitOps /\ [][OpNext]_vars

\* C22: when masked_load_f32_neon returns, result[i] is input[i] where mask[i]
\* is not zero (whatever its sign) and 0 where mask[i] is zero, for every i < n.
C22_MaskedLoadAnySign ==
    (opFn = "masked_load" /\ opPc = "done") =>
        \A x \in Range0(opN) :
            opResult[x] = IF OpMask(opSeed, x) # 0 THEN OpInput(opSeed, x) ELSE 0

RoundHalfEven(qt) ==
    CHOOSE z \in ((qt \div 4) - 1) .. ((qt \div 4) + 1) :
        /\ 4 * z - qt <= 2 /\ qt - 4 * z <= 2
        /\ (4 * z - qt = 2 \/ qt - 4 * z = 2) => z % 2 = 0

\* C24: when round_f32_neon returns, result[i] is the integer nearest to
\* input[i], the even one on a tie, for every i < n.
C24_RoundTiesEven ==
    (opFn = "round" /\ opPc = "done") =>
        \A x \in Range0(opN) : opResult[x] = RoundHalfEven(OpQuarters(opSeed, x))

(***************************************************************************)
(* Part 12.  The order of the events of a tile in the matmul kernels.      *)
(***************************************************************************)
\* the origins of the tiles stored so far
StoredOrigins(terms) == {<<terms[x][1], terms[x][2]>> : x \in DOMAIN terms}

\* index idx of C lies in the tile at (tix, tjx)
InTile(idx, tix, tjx) ==
    /\ idx \div n >= tix /\ idx \div n < tix + TileW(elem)
    /\ idx % n >= tjx /\ idx % n < tjx + TileW(elem)

\* one step of a matmul kernel keeps the order zero, K accumulations, store
TileEventStep ==
    \* a visit starts by zeroing the accumulator, and no tile is visited twice
    /\ pc = "zero" =>
          /\ pc' = "kloop" /\ kk' = 0
          /\ za' = ZeroTile(TileW(elem))
          /\ <<ti, tj>> \notin StoredOrigins(cTerms)
          /\ c' = c /\ ti' = ti /\ tj' = tj
    \* the accumulations come for k = 0, 1, ... in ascending order, within the
    \* same visit and without a store to C
    /\ (pc = "kloop" /\ pc' = "kloop") =>
          /\ kk < k /\ kk' = kk + 1
          /\ zaTerms = [x \in 1 .. kk |-> x - 1]
          /\ za' = MopaTile(TileW(elem), za, at, b, m, n, kk, ti, tj)
          /\ c' = c /\ ti' = ti /\ tj' = tj
    \* the store comes after all K accumulations of this visit, holds only
    \* what was accumulated from zero for this tile, and writes only this tile
    /\ (pc = "kloop" /\ pc' # "kloop") =>
          /\ kk = k /\ zaTerms = AscendingK
          /\ za = MopaAll(TileW(elem), ZeroTile(TileW(elem)), at, b, m, n, k, ti, tj)
          /\ \A idx \in DOMAIN c :
                IF InTile(idx, ti, tj)
                THEN c'[idx] = za[((idx \div n) - ti) * TileW(elem) + ((idx % n) - tj)]
                ELSE c'[idx] = c[idx]
          /\ StoredOrigins(cTerms') = StoredOrigins(cTerms) \cup {<<ti, tj>>}
    \* C changes in no other step
    /\ c' # c => (pc = "kloop" /\ kk = k)
    \* at the return every tile of the output has been visited, once
    /\ pc' = "done" =>
          /\ StoredOrigins(cTerms') = TileOrigins
          /\ Len(cTerms') = Cardinality(TileOrigins)

\* C25: in the blocked and un-blocked matmul kernels the events of each output
\* tile come in the order zero the accumulator, K outer products for
\* k = 0 .. K-1 ascending, store the rows to C; no store comes before the K
\* loop has ended, the K loop is not split over two visits, each tile is visited
\* exactly once, and a tile's store holds only what was accumulated for it.
C25_TileEventOrder == [][TileEventStep]_vars

\* an un-blocked call over six tiles or more with K = 2 has returned, every
\* tile stored once after the accumulations 0, 1
C25_Witness ==
    /\ kern = "plain" /\ pc = "done" /\ k = 2
    /\ Len(cTerms) >= 6
    /\ \A x \in DOMAIN cTerms : cTerms[x][3] = <<0, 1>>
    /\ \A x \in DOMAIN cTerms : \A y \in DOMAIN cTerms :
          (cTerms[x][1] = cTerms[y][1] /\ cTerms[x][2] = cTerms[y][2]) => x = y

(***************************************************************************)
(* Part 13.  The running max and the running sum of sdpa_fmopa_f32/f64.    *)
(***************************************************************************)
\* the columns below cnt that the mask of row r does not set to -inf
VisibleTo(r, cnt) == {col \in Range0(cnt) : Visible(r, col)}

\* the largest score of row r over the columns below cnt, -inf if there is none
RefMaxTo(r, cnt) ==
    IF VisibleTo(r, cnt) = {} THEN NegInf
    ELSE LET scores == {RefScore(r, col) : col \in VisibleTo(r, cnt)}
         IN  Fin(CHOOSE x \in scores : \A y \in scores : y <= x)

\* the rows of the current row-tile that lie below seqLen
TileRows == {row \in Range0(TileW(sdElem)) : qi + row < seqLen}

\* one step of the kernel keeps the running max
RunningMaxStep ==
    \* the first KV tile of a row-tile starts from -inf in every row
    /\ (sdPc' = "kvtile" /\ kj' = 0) =>
          \A row \in Range0(TileW(sdElem)) : m_arr'[row] = NegInf
    \* a KV tile never lowers the max, and leaves the max of the scores of all
    \* the in-range columns up to the end of the tile
    /\ sdPc = "kvtile" =>
          \A row \in TileRows :
             /\ FGe(m_arr'[row], m_arr[row])
             /\ m_arr'[row] = RefMaxTo(qi + row, Min(kj + TileW(sdElem), kvLen))

\* C26: in sdpa_fmopa_f32/f64 the running max m_arr[row] of every query row
\* starts at -infinity for each row-tile, never decreases from one KV tile to
\* the next, and after each tile is the maximum of the scaled and masked scores
\* of all the in-range columns processed so far for that row.
C26_RunningMax == [][RunningMaxStep]_vars

\* two KV tiles have been processed for a row whose largest score lies in the
\* second tile, above a finite max of the first
C26_Witness ==
    /\ sdPc = "normalize" /\ kvLen > TileW(sdElem) /\ seqLen > 0 /\ headDim > 0
    /\ \E row \in TileRows :
          /\ IsFin(RefMaxTo(qi + row, TileW(sdElem)))
          /\ FGt(m_arr[row], RefMaxTo(qi + row, TileW(sdElem)))
          /\ m_arr[row] = RefMaxTo(qi + row, kvLen)

\* the smallest score of row r over the visible columns below cnt
RefMinTo(r, cnt) ==
    LET scores == {RefScore(r, col) : col \in VisibleTo(r, cnt)}
    IN  CHOOSE x \in scores : \A y \in scores : x <= y

\* the weights exp(s_c - m) of the columns below cnt, summed, and summed with
\* V[c][hp], both as multiples of the smallest weight; exp(-inf - m) is 0
RECURSIVE RefDenTo(_, _, _)
RefDenTo(r, cnt, upto) ==
    IF upto = 0 THEN 0
    ELSE RefDenTo(r, cnt, upto - 1)
         + (IF Visible(r, upto - 1)
            THEN Pow2(RefScore(r, upto - 1) - RefMinTo(r, cnt)) ELSE 0)

RECURSIVE RefNumTo(_, _, _, _)
RefNumTo(r, hp, cnt, upto) ==
    IF upto = 0 THEN 0
    ELSE RefNumTo(r, hp, cnt, upto - 1)
         + (IF Visible(r, upto - 1)
            THEN Pow2(RefScore(r, upto - 1) - RefMinTo(r, cnt)) * v[(upto - 1) * headDim + hp]
            ELSE 0)

\* how many times the smallest weight goes into the weight 1 of the max column
RefUnit(r, cnt) == Pow2(RefMaxTo(r, cnt)[2] * Pow2(RefMaxTo(r, cnt)[4]) - RefMinTo(r, cnt))

\* C27: in sdpa_fmopa_f32/f64, after any prefix of KV tiles has been processed
\* for a row with running max m, the running sum is the sum over the in-range
\* columns c seen so far of exp(s_c - m), and the output row is the sum over
\* those c of exp(s_c - m) * V[c].
C27_RunningSumAndOutput ==
    (sdPc \in {"kvtile", "normalize"} /\ kj > 0) =>
        \A row \in TileRows :
            LET r   == qi + row
                cnt == Min(kj, kvLen)
            IN  VisibleTo(r, cnt) # {} =>
                   /\ m_arr[row] = RefMaxTo(r, cnt)
                   /\ l_arr[row] = MkNum(RefDenTo(r, cnt, cnt), RefUnit(r, cnt), 0)
                   /\ \A hp \in Range0(headDim) :
                         Close(output[r * headDim + hp],
                               RefNumTo(r, hp, cnt, cnt), RefUnit(r, cnt))

\* What does hold: the same for every row whose first KV tile has a column not
\* masked with -inf (the running max is finite from the first tile on).
RunningSumAfterVisibleFirstTile ==
    (sdPc \in {"kvtile", "normalize"} /\ kj > 0) =>
        \A row \in TileRows :
            LET r   == qi + row
                cnt == Min(kj, kvLen)
            IN  VisibleTo(r, Min(TileW(sdElem), kvLen)) # {} =>
                   /\ l_arr[row] = MkNum(RefDenTo(r, cnt, cnt), RefUnit(r, cnt), 0)
                   /\ \A hp \in Range0(headDim) :
                         Close(output[r * headDim + hp],
                               RefNumTo(r, hp, cnt, cnt), RefUnit(r, cnt))

====
